---- MODULE Spec2Model ----
(***************************************************************************)
(* A model of logbook.base: the context-object registry (application and   *)
(* thread stacks with the per-thread iteration cache), the log record      *)
(* life cycle, the group-reflected dispatcher properties and the handler   *)
(* dispatch loop of RecordDispatcher.                                      *)
(***************************************************************************)
EXTENDS Integers, Sequences, FiniteSets, TLC

(* ------------------------------------------------------------------ *)
(* Program constants (logbook/base.py, lines 27-35)                    *)
(* ------------------------------------------------------------------ *)
CRITICAL == 6
ERROR == 5
WARNING == 4
NOTICE == 3
INFO == 2
DEBUG == 1
NOTSET == 0
MAX_CONTEXT_OBJECT_CACHE == 256

(* ------------------------------------------------------------------ *)
(* Bounds of the model                                                 *)
(* ------------------------------------------------------------------ *)
\* pushes per ContextObject class: co_stackop hands out 0 .. MaxStackOp-1
MaxStackOp == 3
\* ticks of the wall clock read by datetime.utcnow()
MaxClock == 3

(* ------------------------------------------------------------------ *)
(* Universe                                                            *)
(* ------------------------------------------------------------------ *)
\* the two classes that own a registry: the first subclasses of ContextObject
Classes == {"Handler", "Processor"}
\* thread identifiers, as returned by thread.get_ident() for live threads
Threads == {"t1", "t2"}
HandlerIds == {"h1", "h2"}
ProcessorIds == {"p1"}
ObjectsOf(cls) == IF cls = "Handler" THEN HandlerIds ELSE ProcessorIds

Dispatchers == {"d1", "d2"}
Groups == {"g1"}

\* Python's None
None == "None"

\* the levels handlers are constructed with, and the levels records are logged at
HandlerLevels == {INFO, ERROR}
RecordLevels == {DEBUG, INFO, ERROR}
\* the levels dispatchers and groups are set to
ThresholdLevels == {NOTSET, INFO, ERROR}

VARIABLES
    co_global,    \* cls -> application stack, a sequence of <<seq, obj>>
    co_context,   \* cls -> tid -> thread stack, a sequence of <<seq, obj>>; a thread
                  \* whose thread-local has no `stack` attribute yet reads as <<>>,
                  \* which every use (getattr default, `assert stack`) treats alike
    co_cache,     \* cls -> (partial function) tid -> cached list of objects
    co_stackop,   \* cls -> next value of count().next
    result,       \* what the last operation returned or raised
    handler,      \* handler -> its attributes level, blackhole, bubble, filter
    d_handlers,   \* dispatcher -> self.handlers, the directly attached handlers
    d_level,      \* dispatcher -> the instance attribute _level, if any
    d_disabled,   \* dispatcher -> the instance attribute _disabled, if any
    d_group,      \* dispatcher -> self.group, a group or None
    g_level,      \* group -> level
    g_disabled,   \* group -> disabled
    g_loggers,    \* group -> loggers, a list of dispatchers
    g_processor,  \* group -> processor, None or a callback
    rec,          \* the log record being worked on
    log,          \* the calls made on behalf of the record, in order
    run,          \* the position of the dispatch in progress
    clock,        \* what datetime.utcnow() returns
    ospid,        \* what os.getpid() returns
    co_lock,      \* cls -> the thread that holds _co_context_lock, or None
    th            \* tid -> the registry operation the thread is inside of: its
                  \* name, class, object, position and local variables

regVars == <<co_global, co_context, co_cache, co_stackop>>
dispVars == <<d_handlers, d_level, d_disabled, d_group,
              g_level, g_disabled, g_loggers, g_processor>>
recVars == <<rec, log, run>>
thrVars == <<co_lock, th>>
envVars == <<clock, ospid, thrVars>>
vars == <<co_global, co_context, co_cache, co_stackop, result, handler,
          d_handlers, d_level, d_disabled, d_group, g_level, g_disabled,
          g_loggers, g_processor, rec, log, run, clock, ospid, co_lock, th>>

(* ------------------------------------------------------------------ *)
(* Helpers on sequences and partial functions                          *)
(* ------------------------------------------------------------------ *)
\* dict.pop(key, None): the mapping without key
DictPop(d, k) == [x \in (DOMAIN d) \ {k} |-> d[x]]

\* dict[key] = value
DictSet(d, k, v) == [x \in (DOMAIN d) \cup {k} |-> IF x = k THEN v ELSE d[x]]

\* {}: the empty dict
EmptyDict == [x \in {} |-> <<>>]

\* list.pop(): the list without its last element
ButLast(s) == SubSeq(s, 1, Len(s) - 1)

\* the sequence s without its i-th element
RemoveAt(s, i) == SubSeq(s, 1, i - 1) \o SubSeq(s, i + 1, Len(s))

\* Python's tuple ordering on (seq, obj) entries; sequence numbers are
\* unique per class, so the comparison is decided by the first component
EntryLess(a, b) == a[1] < b[1]

\* index of a greatest entry of a non-empty list
MaxIndex(s) == CHOOSE i \in 1..Len(s) : \A j \in 1..Len(s) : ~EntryLess(s[i], s[j])

\* index of a least entry of a non-empty list
MinIndex(s) == CHOOSE i \in 1..Len(s) : \A j \in 1..Len(s) : ~EntryLess(s[j], s[i])

RECURSIVE SortAscending(_)
\* list.sort() without reverse: least entry first (the mutant of SortReverse)
SortAscending(s) ==
    IF s = <<>> THEN <<>>
    ELSE <<s[MinIndex(s)]>> \o SortAscending(RemoveAt(s, MinIndex(s)))

RECURSIVE SortReverse(_)
\* objects.sort(reverse=True): greatest entry first
SortReverse(s) ==
    IF s = <<>> THEN <<>>
    ELSE <<s[MaxIndex(s)]>> \o SortReverse(RemoveAt(s, MaxIndex(s)))

\* [x[1] for x in objects]
ProjectObjects(s) == [i \in 1..Len(s) |-> s[i][2]]

(* ------------------------------------------------------------------ *)
(* The registry of a ContextObject class                               *)
(* ------------------------------------------------------------------ *)
\* getattr(cls._co_context, 'stack', ())
ThreadStack(cls, tid) == co_context[cls][tid]

\* lines 175-178: the list iter_context_objects builds on a cache miss
BuildObjects(cls, tid) ==
    ProjectObjects(SortReverse(co_global[cls] \o ThreadStack(cls, tid)))

\* the pushes made so far, over all classes
TotalPushes == co_stackop["Handler"] + co_stackop["Processor"]

\* the outcome of an operation
Outcome(op, cls, tid, val, err) ==
    [op |-> op, cls |-> cls, tid |-> tid, val |-> val, err |-> err]

NoResult == Outcome("none", None, None, <<>>, None)

\* the list iter_context_objects hands to thread tid (lines 171-178)
IterObjects(cls, tid) ==
    IF tid \in DOMAIN co_cache[cls] THEN co_cache[cls][tid]
    ELSE BuildObjects(cls, tid)

\* the cache of the class after iter_context_objects ran on thread tid
\* (lines 172-179), for a cache that is cleared when it holds more than
\* `limit` entries
IterCacheAt(limit, cls, tid) ==
    IF tid \in DOMAIN co_cache[cls] THEN co_cache[cls]
    ELSE DictSet(IF Cardinality(DOMAIN co_cache[cls]) > limit
                 THEN EmptyDict ELSE co_cache[cls],
                 tid, BuildObjects(cls, tid))

\* the cache of the class after iter_context_objects ran on thread tid
IterCache(cls, tid) == IterCacheAt(MAX_CONTEXT_OBJECT_CACHE, cls, tid)

\* _ContextObjectType.iter_context_objects, run by thread tid
iter_context_objects(cls, tid) ==
    /\ co_cache' = [co_cache EXCEPT ![cls] = IterCache(cls, tid)]
    /\ result' = Outcome("iter_context_objects", cls, tid, IterObjects(cls, tid), None)
    /\ UNCHANGED <<co_global, co_context, co_stackop>>

\* ContextObject.push_thread, run by thread tid on obj
push_thread(cls, tid, obj) ==
    /\ TotalPushes < MaxStackOp
    /\ co_cache' = [co_cache EXCEPT ![cls] = DictPop(@, tid)]
    /\ co_stackop' = [co_stackop EXCEPT ![cls] = @ + 1]
    /\ co_context' = [co_context EXCEPT ![cls][tid] =
                         @ \o <<<<co_stackop[cls], obj>>>>]
    /\ result' = Outcome("push_thread", cls, None, <<>>, None)
    /\ UNCHANGED co_global

\* pop_thread without its assertion on the popped object
pop_thread_unchecked(cls, tid, obj) ==
    LET stack == ThreadStack(cls, tid) IN
    /\ co_cache' = [co_cache EXCEPT ![cls] = DictPop(@, tid)]
    /\ IF stack = <<>>
       THEN /\ result' = Outcome("pop_thread", cls, None, <<>>,
                                 "no objects on stack")
            /\ UNCHANGED co_context
       ELSE /\ co_context' = [co_context EXCEPT ![cls][tid] = ButLast(stack)]
            /\ result' = Outcome("pop_thread", cls, None, <<>>, None)
    /\ UNCHANGED <<co_global, co_stackop>>

\* ContextObject.pop_thread, run by thread tid on obj
pop_thread(cls, tid, obj) ==
    LET stack == ThreadStack(cls, tid) IN
    /\ co_cache' = [co_cache EXCEPT ![cls] = DictPop(@, tid)]
    /\ IF stack = <<>>
       THEN /\ result' = Outcome("pop_thread", cls, None, <<>>,
                                 "no objects on stack")
            /\ UNCHANGED co_context
       ELSE /\ co_context' = [co_context EXCEPT ![cls][tid] = ButLast(stack)]
            /\ result' = Outcome("pop_thread", cls, None, <<>>,
                                 IF stack[Len(stack)][2] = obj THEN None
                                 ELSE "popped unexpected object")
    /\ UNCHANGED <<co_global, co_stackop>>

\* push_application that forgets to clear the cache
push_application_keep_cache(cls, tid, obj) ==
    /\ TotalPushes < MaxStackOp
    /\ co_global' = [co_global EXCEPT ![cls] = @ \o <<<<co_stackop[cls], obj>>>>]
    /\ co_stackop' = [co_stackop EXCEPT ![cls] = @ + 1]
    /\ result' = Outcome("push_application", cls, None, <<>>, None)
    /\ UNCHANGED <<co_context, co_cache>>

\* ContextObject.push_application, run by thread tid on obj
push_application(cls, tid, obj) ==
    /\ TotalPushes < MaxStackOp
    /\ co_global' = [co_global EXCEPT ![cls] = @ \o <<<<co_stackop[cls], obj>>>>]
    /\ co_stackop' = [co_stackop EXCEPT ![cls] = @ + 1]
    /\ co_cache' = [co_cache EXCEPT ![cls] = EmptyDict]
    /\ result' = Outcome("push_application", cls, None, <<>>, None)
    /\ UNCHANGED co_context

\* ContextObject.pop_application, run by thread tid on obj
pop_application(cls, tid, obj) ==
    LET stack == co_global[cls] IN
    /\ IF stack = <<>>
       THEN /\ result' = Outcome("pop_application", cls, None, <<>>,
                                 "no objects on application stack")
            /\ UNCHANGED <<co_global, co_cache>>
       ELSE /\ co_global' = [co_global EXCEPT ![cls] = ButLast(stack)]
            /\ co_cache' = [co_cache EXCEPT ![cls] = EmptyDict]
            /\ result' = Outcome("pop_application", cls, None, <<>>,
                                 IF stack[Len(stack)][2] = obj THEN None
                                 ELSE "popped unexpected object")
    /\ UNCHANGED <<co_context, co_stackop>>

\* the registries right after the classes are created (lines 159-163)
InitRegistry ==
    /\ co_global = [c \in Classes |-> <<>>]
    /\ co_context = [c \in Classes |-> [t \in Threads |-> <<>>]]
    /\ co_cache = [c \in Classes |-> EmptyDict]
    /\ co_stackop = [c \in Classes |-> 0]

(* ------------------------------------------------------------------ *)
(* The stack operations as functions of the registries, for the        *)
(* operations that call several of them: NestedSetup and the bound     *)
(* blocks of StackedObject                                             *)
(* ------------------------------------------------------------------ *)
\* the two stacks a stacked object can be pushed to
Scopes == {"thread", "application"}

\* the class whose registry a context object is pushed to (type(self))
ClassOf(obj) == CHOOSE c \in Classes : obj \in ObjectsOf(c)

\* the registries of all classes
Registry ==
    [global |-> co_global, context |-> co_context, cache |-> co_cache,
     stackop |-> co_stackop]

\* the registries, with the error that ended the operation if there is one
Running(reg) == [reg |-> reg, err |-> None]
Failed(reg, err) == [reg |-> reg, err |-> err]

\* ContextObject.push_thread and push_application on obj, by thread tid
PushObject(reg, scope, tid, obj) ==
    LET c == ClassOf(obj)
        item == <<reg.stackop[c], obj>>
    IN IF scope = "thread"
       THEN [reg EXCEPT !.cache[c] = DictPop(@, tid),
                        !.stackop[c] = @ + 1,
                        !.context[c][tid] = Append(@, item)]
       ELSE [reg EXCEPT !.global[c] = Append(@, item),
                        !.stackop[c] = @ + 1,
                        !.cache[c] = EmptyDict]

\* ContextObject.pop_thread and pop_application on obj, by thread tid
PopObject(reg, scope, tid, obj) ==
    LET c == ClassOf(obj)
        stack == IF scope = "thread" THEN reg.context[c][tid] ELSE reg.global[c]
        err == IF stack[Len(stack)][2] = obj THEN None
               ELSE "popped unexpected object"
    IN IF scope = "thread"
       THEN IF stack = <<>>
            THEN Failed([reg EXCEPT !.cache[c] = DictPop(@, tid)],
                        "no objects on stack")
            ELSE Failed([reg EXCEPT !.cache[c] = DictPop(@, tid),
                                    !.context[c][tid] = ButLast(stack)], err)
       ELSE IF stack = <<>>
            THEN Failed(reg, "no objects on application stack")
            ELSE Failed([reg EXCEPT !.global[c] = ButLast(stack),
                                    !.cache[c] = EmptyDict], err)

\* what iter_context_objects of class c returns to thread tid
IterIn(reg, c, tid) ==
    IF tid \in DOMAIN reg.cache[c] THEN reg.cache[c][tid]
    ELSE ProjectObjects(SortReverse(reg.global[c] \o reg.context[c][tid]))

\* the NestedSetup objects with their lists of objects (self.objects)
Setups == [n1 |-> <<"h1", "p1">>, n2 |-> <<"n1", "h2">>]
IsSetup(obj) == obj \in DOMAIN Setups

\* reversed(self.objects)
Reversed(objs) == [i \in 1..Len(objs) |-> objs[Len(objs) + 1 - i]]

\* a NestedSetup that pops its objects in the order it pushed them
PopOrder_as_pushed(objs) == objs

\* the order in which pop_thread and pop_application of a NestedSetup go
\* through its objects
PopOrder(objs) == Reversed(objs)

RECURSIVE PushAll(_, _, _, _)
RECURSIVE PopAll(_, _, _, _)

\* obj.push_thread() or obj.push_application() for a StackedObject of any kind
PushStacked(reg, scope, tid, obj) ==
    IF IsSetup(obj) THEN PushAll(reg, Setups[obj], scope, tid)
    ELSE PushObject(reg, scope, tid, obj)

\* NestedSetup.push_application / push_thread: `for obj in self.objects`
PushAll(reg, objs, scope, tid) ==
    IF objs = <<>> THEN reg
    ELSE PushAll(PushStacked(reg, scope, tid, Head(objs)), Tail(objs), scope, tid)

\* obj.pop_thread() or obj.pop_application() for a StackedObject of any kind;
\* st holds the error that already ended the operation, if any
PopStacked(st, scope, tid, obj) ==
    IF st.err # None THEN st
    ELSE IF IsSetup(obj) THEN PopAll(st, PopOrder(Setups[obj]), scope, tid)
    ELSE PopObject(st.reg, scope, tid, obj)

\* NestedSetup.pop_application / pop_thread over the objects in popping order
PopAll(st, objs, scope, tid) ==
    IF objs = <<>> THEN st
    ELSE PopAll(PopStacked(st, scope, tid, Head(objs)), Tail(objs), scope, tid)

\* the context objects a stacked object pushes, in the order of the pushes
RECURSIVE Flat(_)
Flat(objs) ==
    IF objs = <<>> THEN <<>>
    ELSE (IF IsSetup(Head(objs)) THEN Flat(Setups[Head(objs)]) ELSE <<Head(objs)>>)
             \o Flat(Tail(objs))

\* the registries become reg
SetRegistry(reg) ==
    /\ co_global' = reg.global
    /\ co_context' = reg.context
    /\ co_cache' = reg.cache
    /\ co_stackop' = reg.stackop

\* push_thread / push_application of NestedSetup n, run by thread tid
nested_push(scope, tid, n) ==
    /\ TotalPushes + Len(Flat(<<n>>)) <= MaxStackOp
    /\ SetRegistry(PushStacked(Registry, scope, tid, n))
    /\ result' = Outcome("nested_push", scope, tid, <<n>>, None)

\* pop_thread / pop_application of NestedSetup n, run by thread tid
nested_pop(scope, tid, n) ==
    LET st == PopStacked(Running(Registry), scope, tid, n) IN
    /\ SetRegistry(st.reg)
    /\ result' = Outcome("nested_pop", scope, tid, <<n>>, st.err)

(* ------------------------------------------------------------------ *)
(* Bound blocks: `with obj.threadbound():`, `with obj.applicationbound():` *)
(* and `with obj:`                                                     *)
(* ------------------------------------------------------------------ *)
\* the three ways to bind a stacked object for the time of a block
BlockKinds == {"threadbound", "applicationbound", "with"}

\* the scope that a block of the kind pushes to and pops from
ScopeOf(kind) == IF kind = "applicationbound" THEN "application" ELSE "thread"

\* the stacked objects that are bound, and the ones the body pushes and pops
BoundObjects == {"h1", "n1"}
BodyObjects == {"h2"}

\* the stack operations a body can call, and the bodies: sequences of them
BodyOp(push, obj, scope) == [push |-> push, obj |-> obj, scope |-> scope]
BodyOps == { BodyOp(p, o, sc) : p \in BOOLEAN, o \in BodyObjects, sc \in Scopes }
MaxBody == 2
Bodies == UNION { [1..k -> BodyOps] : k \in 0..MaxBody }

\* the number of context objects the body pushes if it runs to its end
PushesOf(body) == Cardinality({ i \in 1..Len(body) : body[i].push })

\* one stack operation of the body, run by thread tid; an operation that
\* raised has ended the body
RunOp(st, tid, op) ==
    IF st.err # None THEN st
    ELSE IF op.push THEN Running(PushStacked(st.reg, op.scope, tid, op.obj))
    ELSE PopStacked(st, op.scope, tid, op.obj)

RECURSIVE RunBody(_, _, _)
\* the body of a block, run by thread tid
RunBody(st, tid, body) ==
    IF body = <<>> THEN st
    ELSE RunBody(RunOp(st, tid, Head(body)), tid, Tail(body))

\* the exception that leaves the body: that of the stack operation which
\* raised, or the failure the body ends with, or none
Failure == "failure"
Leaves(st, raises) ==
    IF st.err # None THEN st.err ELSE IF raises THEN Failure ELSE None

\* a block that releases the object only when the body completed normally
Release_on_success(reg, left, scope, tid, obj) ==
    IF left = None THEN PopStacked(Running(reg), scope, tid, obj)
    ELSE Running(reg)

\* the exit from the block, whatever left the body: the `finally` of
\* threadbound and applicationbound, and __exit__
Release(reg, left, scope, tid, obj) ==
    PopStacked(Running(reg), scope, tid, obj)

\* the exception that leaves the block: that of the pop on exit if it raised,
\* otherwise the one that left the body (__exit__ returns None)
Propagates(released, left) ==
    IF released.err # None THEN released.err ELSE left

\* a block of the kind on obj, run by thread tid, with the body given, which
\* ends by raising if `raises`
bound_block(kind, tid, obj, body, raises) ==
    LET sc == ScopeOf(kind)
        entered == PushStacked(Registry, sc, tid, obj)
        after == RunBody(Running(entered), tid, body)
        left == Leaves(after, raises)
        released == Release(after.reg, left, sc, tid, obj)
    IN /\ TotalPushes + Len(Flat(<<obj>>)) + PushesOf(body) <= MaxStackOp
       /\ SetRegistry(released.reg)
       /\ result' = Outcome(kind, sc, tid, <<obj, body, raises, left>>,
                            Propagates(released, left))

(* ------------------------------------------------------------------ *)
(* LogRecord                                                           *)
(* ------------------------------------------------------------------ *)
\* the value of an instance attribute that is set, and of one that is not
\* (getattr falls back to _missing, line 87)
Attr(v) == [has |-> TRUE, v |-> v]
Missing == [has |-> FALSE, v |-> None]

\* frames: the frame of call_handlers, which calls heavy_init when a record is
\* dispatched, and the frame of application code
FrameCallHandlers == "frame:logbook.base.call_handlers"
FrameUser == "frame:user"

\* None in the fields time and process, whose other values are numbers: the
\* clock and the process ids start at 1
Unset == 0

\* LogRecord.__init__ and the class attributes of lines 346-362
LogRecord(level, exc_info, frame) ==
    [made |-> TRUE, level |-> level, exc_info |-> exc_info, frame |-> frame,
     process |-> Unset, time |-> Unset, heavy_initialized |-> FALSE,
     late |-> FALSE, keep_open |-> FALSE, information_pulled |-> FALSE,
     calling_frame |-> Missing, func_name |-> Missing, restored |-> FALSE]

\* no record has been created yet
NoRecord == [LogRecord(NOTSET, None, None) EXCEPT !.made = FALSE]

\* a value with the error raised while computing it, if any
Ret(r, err) == [rec |-> r, err |-> err]

\* heavy_init without the assertion on `late`
heavy_init_unchecked(r, caller, now, pidnow) ==
    IF r.heavy_initialized THEN Ret(r, None)
    ELSE Ret([r EXCEPT !.heavy_initialized = TRUE,
                       !.process = pidnow,
                       !.time = now,
                       !.frame = IF @ = None THEN caller ELSE @], None)

\* heavy_init that does its work again on an initialised record
heavy_init_again(r, caller, now, pidnow) ==
    IF r.late THEN Ret(r, "heavy init is no longer possible")
    ELSE Ret([r EXCEPT !.heavy_initialized = TRUE,
                       !.process = pidnow,
                       !.time = now,
                       !.frame = IF @ = None THEN caller ELSE @], None)

\* LogRecord.heavy_init, called from the frame `caller`
heavy_init(r, caller, now, pidnow) ==
    IF r.heavy_initialized THEN Ret(r, None)
    ELSE IF r.late THEN Ret(r, "heavy init is no longer possible")
    ELSE Ret([r EXCEPT !.heavy_initialized = TRUE,
                       !.process = pidnow,
                       !.time = now,
                       !.frame = IF @ = None THEN caller ELSE @], None)

\* the calling_frame property: the first frame up from self.frame that is not
\* a frame of logbook.base (lines 511-515)
CallingFrame(r) ==
    IF r.frame = None THEN None
    ELSE IF r.frame = FrameCallHandlers THEN FrameUser
    ELSE r.frame

\* what func_name, module, filename and lineno make of the calling frame
\* (lines 523-525): func_name stands for the four
FuncNameOf(cf) == IF cf = None THEN None ELSE "func_name"

\* a read of record.calling_frame: the record after it and the value read
\* (cached_property.__get__, lines 59-66)
get_calling_frame(r) ==
    IF r.calling_frame.has THEN [rec |-> r, v |-> r.calling_frame.v]
    ELSE [rec |-> [r EXCEPT !.calling_frame = Attr(CallingFrame(r))],
          v |-> CallingFrame(r)]

\* a read of record.func_name, which reads record.calling_frame when it is
\* not cached yet
get_func_name(r) ==
    IF r.func_name.has THEN [rec |-> r, v |-> r.func_name.v]
    ELSE LET cf == get_calling_frame(r)
         IN [rec |-> [cf.rec EXCEPT !.func_name = Attr(FuncNameOf(cf.v))],
             v |-> FuncNameOf(cf.v)]

\* LogRecord.pull_information: reading the pullable properties caches them,
\* and calling_frame with them, on the instance
pull_information(r) ==
    IF r.information_pulled THEN r
    ELSE [get_func_name(r).rec EXCEPT !.information_pulled = TRUE]

\* the attributes close() sets to None (line 342)
NonedOnClose == {"exc_info", "frame", "calling_frame"}

\* the attribute names that start with an underscore: _dispatcher is set by
\* __init__ (line 397), the other two by update_from_dict (lines 477-478)
PrivateKeys == {"_dispatcher", "_information_pulled", "_channel"}

\* record.__dict__, the instance attributes: those set by __init__ or by
\* update_from_dict (level stands for channel, msg, args, kwargs, level and
\* extra), and those set later by heavy_init, by a handler, by close, by
\* make_record_and_handle and by the cached properties; heavy_initialized,
\* late, keep_open, information_pulled and time are class attributes until set
InstanceKeys(r) ==
    {"level", "process", "exc_info", "frame"}
      \cup (IF r.calling_frame.has THEN {"calling_frame"} ELSE {})
      \cup (IF r.func_name.has THEN {"func_name"} ELSE {})
      \cup (IF r.time # Unset THEN {"time"} ELSE {})
      \cup (IF r.heavy_initialized THEN {"heavy_initialized"} ELSE {})
      \cup (IF r.late THEN {"late"} ELSE {})
      \cup (IF r.keep_open THEN {"keep_open"} ELSE {})
      \cup (IF r.information_pulled THEN {"information_pulled"} ELSE {})
      \cup (IF r.restored THEN {"_information_pulled", "_channel"}
                           ELSE {"_dispatcher"})

InstanceDict(r) ==
    [k \in InstanceKeys(r) |->
        CASE k = "calling_frame" -> r.calling_frame.v
          [] k = "func_name" -> r.func_name.v
          [] k = "_information_pulled" -> TRUE
          [] k \in {"_channel", "_dispatcher"} -> None
          [] OTHER -> r[k]]

\* a to_dict that exports every attribute without an underscore
Exported_with_frames(k) == k \notin PrivateKeys

\* the test of to_dict, line 453
Exported(k) == k \notin PrivateKeys /\ k \notin NonedOnClose

\* LogRecord.to_dict(): the record after it, and the mapping returned
to_dict(r) ==
    LET p == pull_information(r)
    IN [rec |-> p,
        d |-> [k \in {x \in InstanceKeys(p) : Exported(x)} |-> InstanceDict(p)[k]]]

\* the value of attribute k after self.__dict__.update(d) on a new object:
\* that of d, or else the class attribute
Updated(d, k, classattr) == IF k \in DOMAIN d THEN d[k] ELSE classattr

\* LogRecord.from_dict(d), for a mapping d that has level and process
from_dict(d) ==
    [made |-> TRUE, restored |-> TRUE, level |-> d["level"],
     process |-> d["process"],
     exc_info |-> None, frame |-> None, calling_frame |-> Attr(None),
     time |-> Updated(d, "time", Unset),
     heavy_initialized |-> Updated(d, "heavy_initialized", FALSE),
     late |-> Updated(d, "late", FALSE),
     keep_open |-> Updated(d, "keep_open", FALSE),
     information_pulled |-> Updated(d, "information_pulled", FALSE),
     func_name |-> IF "func_name" \in DOMAIN d THEN Attr(d["func_name"]) ELSE Missing]

\* close that leaves the frames where they are
close_keep_frame(r) == [r EXCEPT !.exc_info = None, !.late = TRUE]

\* LogRecord.close
close(r) ==
    [r EXCEPT !.exc_info = None, !.frame = None, !.calling_frame = Attr(None),
              !.late = TRUE]

(* ------------------------------------------------------------------ *)
(* group_reflected_property                                            *)
(* ------------------------------------------------------------------ *)
\* rv != fallback, for an attribute that is set: the fallback _missing differs
\* from every value
Differs(local, fallback) == ~fallback.has \/ local.v # fallback.v

\* _get without the comparison with the fallback
GroupReflectedNoFallback(local, fallback, group, default, groupValue) ==
    IF local.has THEN local.v
    ELSE IF group = None THEN default
    ELSE groupValue

\* _get of group_reflected_property (lines 86-92): local is the instance
\* attribute '_' + name, groupValue the attribute of the group
GroupReflected(local, fallback, group, default, groupValue) ==
    IF local.has /\ Differs(local, fallback) THEN local.v
    ELSE IF group = None THEN default
    ELSE groupValue

\* RecordDispatcher.level (line 751)
Level(d) ==
    GroupReflected(d_level[d], Attr(NOTSET), d_group[d], NOTSET,
                   IF d_group[d] = None THEN NOTSET ELSE g_level[d_group[d]])

\* RecordDispatcher.disabled (line 750)
Disabled(d) ==
    GroupReflected(d_disabled[d], Missing, d_group[d], FALSE,
                   IF d_group[d] = None THEN FALSE ELSE g_disabled[d_group[d]])

(* ------------------------------------------------------------------ *)
(* RecordDispatcher                                                    *)
(* ------------------------------------------------------------------ *)
\* a call made on behalf of a record: what was called, on whom, what it returned
\* (for the constructor of the record: the exc_info it was given)
Event(ev, who, ret) == [ev |-> ev, who |-> who, ret |-> ret]

\* no dispatch is in progress
Idle == [pc |-> "idle", entry |-> None, d |-> None, tid |-> None, ctx |-> <<>>,
         i |-> 0, record_initialized |-> FALSE]

\* a loop that looks up the context handlers anew at every iteration
Chain_live == d_handlers[run.d] \o IterObjects("Handler", run.tid)

\* a loop that runs over the context handlers first
Chain_context_first == run.ctx \o d_handlers[run.d]

\* the handlers the loop of call_handlers runs over: self.handlers, then the
\* context handlers handed out when the loop started (line 799)
Chain == d_handlers[run.d] \o run.ctx

\* handle() that lets every record through
Passes_ungated(d, r) == TRUE

\* the test of RecordDispatcher.handle (line 761)
Passes(d, r) == ~Disabled(d) /\ r.level >= Level(d)

\* line 801: the handler is not interested in the record
Skips(r, h) == r.level < handler[h].level

\* a loop that takes no notice of blackhole
IsBlackhole_never(h) == FALSE

\* line 806: the handler is a blackhole
IsBlackhole(h) == handler[h].blackhole

\* a loop that stops at every handler that handled the record
Terminates_always(h, ret) == ret = "true"

\* line 825: the record was handled and the handler does not bubble
Terminates(h, ret) == ret = "true" /\ ~handler[h].bubble

\* a process_record that runs the processors of the context before the one
\* of the group
ProcessCalls_group_last(d, tid, pres) ==
    LET grp == IF d_group[d] # None /\ g_processor[d_group[d]] # None
               THEN <<"group">> ELSE <<>>
        all == IterObjects("Processor", tid) \o grp
    IN [k \in 1..Len(all) |-> Event("process", all[k], "none")]

\* the calls process_record makes (lines 833-836): the processor of the group,
\* then every processor visible to the thread; `pres` names the callback that
\* raises, if any
ProcessCalls(d, tid, pres) ==
    LET grp == IF d_group[d] # None /\ g_processor[d_group[d]] # None
               THEN <<"group">> ELSE <<>>
        all == grp \o IterObjects("Processor", tid)
        upto == IF \E k \in 1..Len(all) : all[k] = pres
                THEN CHOOSE k \in 1..Len(all) :
                         /\ all[k] = pres
                         /\ \A j \in 1..(k - 1) : all[j] # pres
                ELSE Len(all)
    IN [k \in 1..upto |->
           Event("process", all[k], IF all[k] = pres THEN "raise" ELSE "none")]

\* whether one of the calls raised
Raised(events) == \E k \in 1..Len(events) : events[k].ret = "raise"

\* whether process_record gets as far as Processor.iter_context_objects()
ReachesProcessors(d, pres) ==
    ~(pres = "group" /\ d_group[d] # None /\ g_processor[d_group[d]] # None)

\* a loop that initialises the record for every handler that takes it
NeedsInit_always(initialized) == TRUE

\* line 813: the record was not yet initialised in this traversal
NeedsInit(initialized) == ~initialized

\* one iteration of the loop of call_handlers (lines 799-826) on handler h:
\* fres and hres are what the filter and handle of the handler do, keep tells
\* whether handle sets record.keep_open, pres which processor raises.
\* Yields the record, the calls made, and how the iteration ends.
Visit(h, r, initialized, d, tid, fres, hres, keep, pres) ==
    LET visit == <<Event("visit", h, "none")>>
        hi == heavy_init(r, FrameCallHandlers, clock, ospid)
        r1 == IF NeedsInit(initialized) THEN hi.rec ELSE r
        pcalls == ProcessCalls(d, tid, pres)
        initev == IF ~NeedsInit(initialized) THEN <<>>
                  ELSE IF hi.err # None
                       THEN <<Event("heavy_init", None, "raise")>>
                       ELSE <<Event("heavy_init", None, "none"),
                              Event("process_record", d, "none")>> \o pcalls
        fev == IF handler[h].filter # None
               THEN <<Event("filter", h, fres)>> ELSE <<>>
        r2 == [r1 EXCEPT !.keep_open = @ \/ keep]
        out(rr, evs, how, init, procs) ==
            [rec |-> rr, events |-> evs, how |-> how, initialized |-> init,
             processors |-> procs]
    IN IF Skips(r, h) THEN out(r, visit, "continue", initialized, FALSE)
       ELSE IF IsBlackhole(h) THEN out(r, visit, "break", initialized, FALSE)
       ELSE IF Raised(initev)
            THEN out(r1, visit \o initev, "raise", initialized,
                     NeedsInit(initialized) /\ hi.err = None
                         /\ ReachesProcessors(d, pres))
       ELSE IF handler[h].filter # None /\ fres = "raise"
            THEN out(r1, visit \o initev \o fev, "raise", TRUE, NeedsInit(initialized))
       ELSE IF handler[h].filter # None /\ fres = "false"
            THEN out(r1, visit \o initev \o fev, "continue", TRUE, NeedsInit(initialized))
       ELSE IF hres = "raise"
            THEN out(r2, visit \o initev \o fev \o <<Event("handle", h, hres)>>,
                     "raise", TRUE, NeedsInit(initialized))
       ELSE out(r2, visit \o initev \o fev \o <<Event("handle", h, hres)>>,
                IF Terminates(h, hres) THEN "break" ELSE "continue",
                TRUE, NeedsInit(initialized))

\* a finally block that closes only when nothing was raised
Finally_skip_on_error(r, how) ==
    IF how = "raise" THEN r
    ELSE IF ~r.keep_open THEN close([r EXCEPT !.late = TRUE])
    ELSE [r EXCEPT !.late = TRUE]

\* the finally block of make_record_and_handle (lines 775-778); `how` tells
\* whether handle() returned or raised
Finally(r, how) ==
    IF ~r.keep_open THEN close([r EXCEPT !.late = TRUE])
    ELSE [r EXCEPT !.late = TRUE]

\* the end of a dispatch through dispatcher d: the record and the outcome the
\* caller sees
EndOfDispatch(entry, d, tid, r, how) ==
    /\ rec' = IF entry = "make_record_and_handle" THEN Finally(r, how) ELSE r
    /\ result' = Outcome(entry, None, tid, <<d>>,
                         IF how = "raise" THEN "raised" ELSE None)
    /\ run' = Idle

\* handle(record) up to the loop of call_handlers: the test of line 761 and
\* the evaluation of chain(self.handlers, Handler.iter_context_objects())
BeginDispatch(entry, d, tid, r) ==
    /\ log' = IF entry = "make_record_and_handle"
              THEN <<Event("LogRecord", d, r.exc_info)>> ELSE <<>>
    /\ IF Passes(d, r)
       THEN /\ co_cache' = [co_cache EXCEPT !["Handler"] = IterCache("Handler", tid)]
            /\ IF d_handlers[d] \o IterObjects("Handler", tid) = <<>>
               THEN EndOfDispatch(entry, d, tid, r, "return")
               ELSE /\ rec' = r
                    /\ run' = [pc |-> "loop", entry |-> entry, d |-> d, tid |-> tid,
                               ctx |-> IterObjects("Handler", tid), i |-> 1,
                               record_initialized |-> FALSE]
                    /\ result' = NoResult
       ELSE /\ EndOfDispatch(entry, d, tid, r, "return")
            /\ UNCHANGED co_cache
    /\ UNCHANGED <<co_global, co_context, co_stackop, handler, dispVars, envVars>>

\* RecordDispatcher.make_record_and_handle(level, ..., exc_info, ...) on
\* thread tid: a new record, handed to handle()
make_record_and_handle(d, tid, level, exc_info) ==
    /\ run.pc = "idle"
    /\ BeginDispatch("make_record_and_handle", d, tid,
                     LogRecord(level, exc_info, None))

\* RecordDispatcher.handle(record) on thread tid, for the record at hand
handle(d, tid) ==
    /\ run.pc = "idle"
    /\ rec.made
    /\ BeginDispatch("handle", d, tid, rec)

\* the next iteration of the loop of call_handlers, and what follows the loop
\* when this was the last one
call_handlers_step(fres, hres, keep, pres) ==
    /\ run.pc = "loop"
    /\ LET v == Visit(Chain[run.i], rec, run.record_initialized, run.d, run.tid,
                      fres, hres, keep, pres)
       IN /\ log' = log \o v.events
          /\ co_cache' = IF v.processors
                         THEN [co_cache EXCEPT
                                 !["Processor"] = IterCache("Processor", run.tid)]
                         ELSE co_cache
          /\ IF v.how = "continue" /\ run.i < Len(Chain)
             THEN /\ rec' = v.rec
                  /\ run' = [run EXCEPT !.i = @ + 1,
                                        !.record_initialized = v.initialized]
                  /\ result' = NoResult
             ELSE EndOfDispatch(run.entry, run.d, run.tid, v.rec,
                                IF v.how = "raise" THEN "raise" ELSE "return")
    /\ UNCHANGED <<co_global, co_context, co_stackop, handler, dispVars, envVars>>

\* what filter and handle may do: return true, return false, raise
CallOutcomes == {"true", "false", "raise"}

\* the callbacks process_record may find raising
Raisers == {None, "group"} \cup ProcessorIds

\* application code appends a handler to dispatcher.handlers (line 744)
attach_handler(d, h) ==
    /\ d_handlers' = [d_handlers EXCEPT ![d] = Append(@, h)]
    /\ UNCHANGED <<d_level, d_disabled, d_group, g_level, g_disabled, g_loggers,
                   g_processor>>

\* RecordDispatcher.__init__ (lines 740-748) for every dispatcher, with the
\* default level, and LoggerGroup.__init__ (lines 865-881) for every group
InitDispatchers ==
    /\ d_handlers = [d \in Dispatchers |-> <<>>]
    /\ d_level = [d \in Dispatchers |-> Attr(NOTSET)]
    /\ d_disabled = [d \in Dispatchers |-> Missing]
    /\ d_group = [d \in Dispatchers |-> None]
    /\ g_level = [g \in Groups |-> NOTSET]
    /\ g_disabled = [g \in Groups |-> FALSE]
    /\ g_loggers = [g \in Groups |-> <<>>]
    /\ g_processor = [g \in Groups |-> None]

\* no record yet, no dispatch in progress
InitRecord ==
    /\ rec = NoRecord
    /\ log = <<>>
    /\ run = Idle

\* a thread that is inside of no registry operation
IdleThread ==
    [pc |-> "idle", op |-> None, cls |-> None, obj |-> None, objects |-> <<>>,
     popped |-> None, err |-> None]

InitEnv ==
    /\ clock = 1
    /\ ospid = 1
    /\ co_lock = [c \in Classes |-> None]
    /\ th = [t \in Threads |-> IdleThread]

\* the attributes a handler is constructed with; the filter of a blackhole
\* handler is never looked at (line 806 comes first), so it is left out
HandlerConfigs ==
    {c \in [level : HandlerLevels, blackhole : BOOLEAN, bubble : BOOLEAN,
            filter : {None, "callable"}] : c.blackhole => c.filter = None}

\* the handlers of level INFO without filter that are not a blackhole
SimpleConfigs ==
    {c \in HandlerConfigs : c.level = INFO /\ ~c.blackhole /\ c.filter = None}

\* a handler of level INFO that takes what it is given and does not bubble
PlainHandler == [level |-> INFO, blackhole |-> FALSE, bubble |-> FALSE, filter |-> None]

(* ------------------------------------------------------------------ *)
(* Specification of the registry: any thread pushes, pops and iterates *)
(* ------------------------------------------------------------------ *)
notRegVars == <<handler, dispVars, recVars, envVars>>

Init ==
    /\ InitRegistry
    /\ result = NoResult
    /\ handler = [h \in HandlerIds |-> PlainHandler]
    /\ InitDispatchers
    /\ InitRecord
    /\ InitEnv

PushThread ==
    \E c \in Classes, t \in Threads : \E o \in ObjectsOf(c) :
        push_thread(c, t, o) /\ UNCHANGED notRegVars
PopThread ==
    \E c \in Classes, t \in Threads : \E o \in ObjectsOf(c) :
        pop_thread(c, t, o) /\ UNCHANGED notRegVars
PushApplication ==
    \E c \in Classes, t \in Threads : \E o \in ObjectsOf(c) :
        push_application(c, t, o) /\ UNCHANGED notRegVars
PopApplication ==
    \E c \in Classes, t \in Threads : \E o \in ObjectsOf(c) :
        pop_application(c, t, o) /\ UNCHANGED notRegVars
IterContextObjects ==
    \E c \in Classes, t \in Threads :
        iter_context_objects(c, t) /\ UNCHANGED notRegVars

Next ==
    \/ PushThread
    \/ PopThread
    \/ PushApplication
    \/ PopApplication
    \/ IterContextObjects

Spec == Init /\ [][Next]_vars

(* ------------------------------------------------------------------ *)
(* Specification of the dispatch: handlers with any attributes are     *)
(* attached to a dispatcher or pushed, each once, and then records are *)
(* logged                                                              *)
(* ------------------------------------------------------------------ *)
\* the handlers and processors that are attached or on a stack
Installed ==
    UNION {{co_global[c][k][2] : k \in 1..Len(co_global[c])} : c \in Classes}
    \cup UNION {{co_context[c][t][k][2] : k \in 1..Len(co_context[c][t])} :
                   c \in Classes, t \in Threads}
    \cup UNION {{d_handlers[d][k] : k \in 1..Len(d_handlers[d])} : d \in Dispatchers}

InitDispatch ==
    /\ InitRegistry
    /\ result = NoResult
    /\ handler \in {f \in [HandlerIds -> HandlerConfigs] : f["h2"] \in SimpleConfigs}
    /\ InitDispatchers
    /\ InitRecord
    /\ InitEnv

DAttachHandler ==
    \E h \in HandlerIds \ Installed :
        /\ ~rec.made
        /\ attach_handler("d1", h)
        /\ result' = NoResult
        /\ UNCHANGED <<regVars, handler, recVars, envVars>>
DPushThread ==
    \E t \in Threads : \E o \in HandlerIds \ Installed :
        ~rec.made /\ push_thread("Handler", t, o) /\ UNCHANGED notRegVars
DPushApplication ==
    \E c \in Classes, t \in Threads : \E o \in ObjectsOf(c) \ Installed :
        ~rec.made /\ push_application(c, t, o) /\ UNCHANGED notRegVars
DMakeRecordAndHandle ==
    \E l \in {INFO, ERROR}, e \in {None, "exc_info"} :
        make_record_and_handle("d1", "t1", l, e)
DCallHandlersStep ==
    \E fres \in CallOutcomes, hres \in CallOutcomes, keep \in BOOLEAN,
       pres \in Raisers :
        call_handlers_step(fres, hres, keep, pres)

NextDispatch ==
    \/ DAttachHandler
    \/ DPushThread
    \/ DPushApplication
    \/ DMakeRecordAndHandle
    \/ DCallHandlersStep

SpecDispatch == InitDispatch /\ [][NextDispatch]_vars


(* ------------------------------------------------------------------ *)
(* Operations on a record, a dispatcher and a group made by the        *)
(* application                                                         *)
(* ------------------------------------------------------------------ *)
\* record.heavy_init() called by application code
call_heavy_init ==
    LET hi == heavy_init(rec, FrameUser, clock, ospid) IN
    /\ rec.made
    /\ rec' = hi.rec
    /\ result' = Outcome("heavy_init", None, None, <<>>, hi.err)

\* record.pull_information()
call_pull_information ==
    /\ rec.made
    /\ rec' = pull_information(rec)
    /\ result' = Outcome("pull_information", None, None, <<>>, None)

\* record.close()
call_close ==
    /\ rec.made
    /\ rec' = close(rec)
    /\ result' = Outcome("close", None, None, <<>>, None)

\* record.to_dict(): pulls the information, then copies the attributes
\* (lines 450-459)
call_to_dict ==
    /\ rec.made
    /\ rec' = pull_information(rec)
    /\ result' = Outcome("to_dict", None, None, <<>>, None)

\* a read of record.calling_frame and of record.func_name by the application
read_calling_frame ==
    /\ rec.made
    /\ rec' = get_calling_frame(rec).rec
    /\ result' = Outcome("calling_frame", None, None, <<get_calling_frame(rec).v>>, None)
read_func_name ==
    /\ rec.made
    /\ rec' = get_func_name(rec).rec
    /\ result' = Outcome("func_name", None, None, <<get_func_name(rec).v>>, None)

\* record.to_dict() called by the application, with the mapping it returns
export_to_dict ==
    /\ rec.made
    /\ rec' = to_dict(rec).rec
    /\ result' = Outcome("to_dict", None, None, <<to_dict(rec).d>>, None)

\* LogRecord.from_dict(d) called by the application: the record at hand is
\* now the one returned
call_from_dict(d) ==
    /\ run.pc = "idle"
    /\ rec' = from_dict(d)
    /\ result' = Outcome("from_dict", None, None, <<d>>, None)

\* a read of record.dispatcher (lines 621-630): self._dispatcher is an
\* attribute of the instance or of nothing
read_dispatcher ==
    /\ rec.made
    /\ rec' = rec
    /\ result' = Outcome("dispatcher", None, None, <<>>,
                         IF "_dispatcher" \in InstanceKeys(rec) THEN None
                         ELSE "AttributeError")

\* dispatcher.level = v and dispatcher.disabled = v (_set, line 94)
set_level(d, v) == d_level' = [d_level EXCEPT ![d] = Attr(v)]
set_disabled(d, v) == d_disabled' = [d_disabled EXCEPT ![d] = Attr(v)]

\* del dispatcher.level and del dispatcher.disabled (_del, line 96); delattr
\* raises when the instance attribute is not there
del_level(d) ==
    /\ d_level' = [d_level EXCEPT ![d] = Missing]
    /\ result' = Outcome("del level", None, None, <<d>>,
                         IF d_level[d].has THEN None ELSE "AttributeError")
del_disabled(d) ==
    /\ d_disabled' = [d_disabled EXCEPT ![d] = Missing]
    /\ result' = Outcome("del disabled", None, None, <<d>>,
                         IF d_disabled[d].has THEN None ELSE "AttributeError")

\* reading dispatcher.level and dispatcher.disabled
read_level(d) == result' = Outcome("level", None, None, <<d, Level(d)>>, None)
read_disabled(d) == result' = Outcome("disabled", None, None, <<d, Disabled(d)>>, None)

\* the first index of x in the list s (list.remove looks for it)
IndexOf(s, x) == CHOOSE i \in 1..Len(s) : s[i] = x /\ \A j \in 1..(i - 1) : s[j] # x

\* LoggerGroup.add_logger (lines 883-887)
add_logger(g, d) ==
    IF d_group[d] # None
    THEN /\ result' = Outcome("add_logger", None, None, <<g, d>>,
                              "Logger already belongs to a group")
         /\ UNCHANGED <<d_group, g_loggers>>
    ELSE /\ d_group' = [d_group EXCEPT ![d] = g]
         /\ g_loggers' = [g_loggers EXCEPT ![g] = Append(@, d)]
         /\ result' = Outcome("add_logger", None, None, <<g, d>>, None)

\* LoggerGroup.remove_logger (lines 889-892)
remove_logger(g, d) ==
    IF \E i \in 1..Len(g_loggers[g]) : g_loggers[g][i] = d
    THEN /\ g_loggers' = [g_loggers EXCEPT ![g] = RemoveAt(@, IndexOf(@, d))]
         /\ d_group' = [d_group EXCEPT ![d] = None]
         /\ result' = Outcome("remove_logger", None, None, <<g, d>>, None)
    ELSE /\ result' = Outcome("remove_logger", None, None, <<g, d>>, "ValueError")
         /\ UNCHANGED <<d_group, g_loggers>>

(* ------------------------------------------------------------------ *)
(* Specification of the groups: dispatchers with one attached handler  *)
(* are configured, put into and taken out of a group, read, and then   *)
(* records are logged through them                                     *)
(* ------------------------------------------------------------------ *)
InitGroup ==
    /\ InitRegistry
    /\ result = NoResult
    /\ handler = [h \in HandlerIds |-> PlainHandler]
    /\ d_handlers = [d \in Dispatchers |-> <<"h1">>]
    /\ d_level = [d \in Dispatchers |-> Attr(NOTSET)]
    /\ d_disabled = [d \in Dispatchers |-> Missing]
    /\ d_group = [d \in Dispatchers |-> None]
    /\ g_level = [g \in Groups |-> NOTSET]
    /\ g_disabled = [g \in Groups |-> FALSE]
    /\ g_loggers = [g \in Groups |-> <<>>]
    /\ g_processor = [g \in Groups |-> "callable"]
    /\ InitRecord
    /\ InitEnv

groupFrame == <<regVars, handler, d_handlers, g_processor, recVars, envVars>>

GSetLevel ==
    \E d \in Dispatchers, v \in ThresholdLevels :
        /\ ~rec.made
        /\ set_level(d, v)
        /\ result' = NoResult
        /\ UNCHANGED <<groupFrame, d_disabled, d_group, g_level, g_disabled, g_loggers>>
GDelLevel ==
    \E d \in Dispatchers :
        /\ ~rec.made
        /\ del_level(d)
        /\ UNCHANGED <<groupFrame, d_disabled, d_group, g_level, g_disabled, g_loggers>>
GSetDisabled ==
    \E d \in Dispatchers, v \in BOOLEAN :
        /\ ~rec.made
        /\ set_disabled(d, v)
        /\ result' = NoResult
        /\ UNCHANGED <<groupFrame, d_level, d_group, g_level, g_disabled, g_loggers>>
GDelDisabled ==
    \E d \in Dispatchers :
        /\ ~rec.made
        /\ del_disabled(d)
        /\ UNCHANGED <<groupFrame, d_level, d_group, g_level, g_disabled, g_loggers>>
GSetGroupLevel ==
    \E g \in Groups, v \in ThresholdLevels :
        /\ ~rec.made
        /\ g_level' = [g_level EXCEPT ![g] = v]
        /\ result' = NoResult
        /\ UNCHANGED <<groupFrame, d_level, d_disabled, d_group, g_disabled, g_loggers>>
GSetGroupDisabled ==
    \E g \in Groups, v \in BOOLEAN :
        /\ ~rec.made
        /\ g_disabled' = [g_disabled EXCEPT ![g] = v]
        /\ result' = NoResult
        /\ UNCHANGED <<groupFrame, d_level, d_disabled, d_group, g_level, g_loggers>>
GAddLogger ==
    \E g \in Groups, d \in Dispatchers :
        /\ ~rec.made
        /\ add_logger(g, d)
        /\ UNCHANGED <<groupFrame, d_level, d_disabled, g_level, g_disabled>>
GRemoveLogger ==
    \E g \in Groups, d \in Dispatchers :
        /\ ~rec.made
        /\ remove_logger(g, d)
        /\ UNCHANGED <<groupFrame, d_level, d_disabled, g_level, g_disabled>>
GReadLevel ==
    \E d \in Dispatchers :
        /\ ~rec.made
        /\ read_level(d)
        /\ UNCHANGED <<groupFrame, d_level, d_disabled, d_group, g_level, g_disabled,
                       g_loggers>>
GReadDisabled ==
    \E d \in Dispatchers :
        /\ ~rec.made
        /\ read_disabled(d)
        /\ UNCHANGED <<groupFrame, d_level, d_disabled, d_group, g_level, g_disabled,
                       g_loggers>>
GMakeRecordAndHandle ==
    \E l \in RecordLevels : make_record_and_handle("d1", "t1", l, None)
GHandle == handle("d1", "t1")
GCallHandlersStep ==
    \E hres \in CallOutcomes, pres \in {None, "group"} :
        call_handlers_step("true", hres, FALSE, pres)

NextGroup ==
    \/ GSetLevel
    \/ GDelLevel
    \/ GSetDisabled
    \/ GDelDisabled
    \/ GSetGroupLevel
    \/ GSetGroupDisabled
    \/ GAddLogger
    \/ GRemoveLogger
    \/ GReadLevel
    \/ GReadDisabled
    \/ GMakeRecordAndHandle
    \/ GHandle
    \/ GCallHandlersStep

SpecGroup == InitGroup /\ [][NextGroup]_vars

(* ------------------------------------------------------------------ *)
(* Specification of a record: one record is created, by the            *)
(* application or by make_record_and_handle, and is then initialised,  *)
(* pulled, serialised, closed and dispatched in any order while the    *)
(* clock advances and the process forks                                *)
(* ------------------------------------------------------------------ *)
InitOneRecord ==
    /\ InitRegistry
    /\ result = NoResult
    /\ handler = [h \in HandlerIds |-> PlainHandler]
    /\ InitDispatchers
    /\ InitRecord
    /\ InitEnv

recordFrame == <<regVars, handler, dispVars, log, run, envVars>>

\* LogRecord(...) called by application code, with or without a frame
RNewRecord ==
    \E e \in {None, "exc_info"}, f \in {None, FrameUser} :
        /\ ~rec.made
        /\ run.pc = "idle"
        /\ rec' = LogRecord(INFO, e, f)
        /\ result' = Outcome("LogRecord", None, None, <<>>, None)
        /\ UNCHANGED recordFrame
RAttachHandler ==
    /\ ~rec.made
    /\ d_handlers["d1"] = <<>>
    /\ attach_handler("d1", "h1")
    /\ UNCHANGED <<regVars, handler, result, recVars, envVars>>
RMakeRecordAndHandle ==
    \E e \in {None, "exc_info"} :
        /\ ~rec.made
        /\ make_record_and_handle("d1", "t1", INFO, e)
RHandle == handle("d1", "t1")
RCallHandlersStep ==
    \E hres \in CallOutcomes, keep \in BOOLEAN :
        call_handlers_step("true", hres, keep, None)
RHeavyInit == call_heavy_init /\ UNCHANGED recordFrame
RPullInformation == call_pull_information /\ UNCHANGED recordFrame
RClose == call_close /\ UNCHANGED recordFrame
RToDict == call_to_dict /\ UNCHANGED recordFrame
\* time passes: datetime.utcnow() returns a later value
Tick ==
    /\ clock < MaxClock
    /\ clock' = clock + 1
    /\ UNCHANGED <<regVars, handler, dispVars, recVars, result, ospid, thrVars>>
\* the process forks and the child goes on: os.getpid() returns another value
Fork ==
    /\ ospid = 1
    /\ ospid' = 2
    /\ UNCHANGED <<regVars, handler, dispVars, recVars, result, clock, thrVars>>

NextRecord ==
    \/ RNewRecord
    \/ RAttachHandler
    \/ RMakeRecordAndHandle
    \/ RHandle
    \/ RCallHandlersStep
    \/ RHeavyInit
    \/ RPullInformation
    \/ RClose
    \/ RToDict
    \/ Tick
    \/ Fork

SpecRecord == InitOneRecord /\ [][NextRecord]_vars

(* ------------------------------------------------------------------ *)
(* The logger interface (LoggerMixin) and the exception catcher        *)
(* ------------------------------------------------------------------ *)
\* the levels a logger or a group is given, and the levels logged at
LoggerLevels == {NOTSET, INFO, ERROR, CRITICAL}
LogLevels == {DEBUG, INFO, ERROR, CRITICAL}

\* an entry test that drops a record of exactly the logger's level
Emits_strict(d, level) == level > Level(d)

\* the test of debug, info, warn, notice, error, critical and log:
\* `if LEVEL >= self.level`
Emits(d, level) == level >= Level(d)

\* a call that ended before make_record_and_handle was called
NoRecordMade(op, d, tid, what) ==
    /\ result' = Outcome(op, None, tid, <<d, what>>, None)
    /\ log' = <<>>
    /\ UNCHANGED <<regVars, handler, dispVars, rec, run, envVars>>

\* logger.debug(...), .info(...), ..., .log(level, ...) on thread tid, with
\* _log (lines 724-728)
log_at(d, tid, level, exc_info) ==
    /\ run.pc = "idle"
    /\ IF Emits(d, level)
       THEN make_record_and_handle(d, tid, level, exc_info)
       ELSE NoRecordMade("log", d, tid, level)

\* an __exit__ that logs whether or not the body raised
Catches_always(raised) == TRUE

\* _ExceptionCatcher.__exit__: `if exc_type is not None`
Catches(raised) == raised

\* the triple (exc_type, exc_value, tb) that __exit__ is given and passes on
ExcInfo(raised) == IF raised THEN "exc_info" ELSE "(None, None, None)"

\* `with logger.catch_exceptions(): body` on thread tid, where the body
\* raises or returns: __exit__ calls logger.exception(..., exc_info=...),
\* which calls logger.error; the value __exit__ returns is reached only when
\* that call returns
catch_exceptions(d, tid, raised) ==
    /\ run.pc = "idle"
    /\ IF Catches(raised) /\ Emits(d, ERROR)
       THEN make_record_and_handle(d, tid, ERROR, ExcInfo(raised))
       ELSE NoRecordMade("catch_exceptions", d, tid,
                         IF raised THEN "raised" ELSE "returned")

(* ------------------------------------------------------------------ *)
(* Specification of the logger interface: a logger with two handlers   *)
(* is configured, alone or in a group, and records are then logged     *)
(* through its entry points and its exception catcher                  *)
(* ------------------------------------------------------------------ *)
InitLogger ==
    /\ InitRegistry
    /\ result = NoResult
    /\ handler \in {f \in [HandlerIds -> HandlerConfigs] :
                       /\ ~f["h1"].blackhole /\ f["h1"].filter = None
                       /\ f["h2"] = PlainHandler}
    /\ d_handlers = [d \in Dispatchers |-> IF d = "d1" THEN <<"h1", "h2">> ELSE <<>>]
    /\ d_level = [d \in Dispatchers |-> Attr(NOTSET)]
    /\ d_disabled = [d \in Dispatchers |-> Missing]
    /\ d_group = [d \in Dispatchers |-> None]
    /\ g_level = [g \in Groups |-> NOTSET]
    /\ g_disabled = [g \in Groups |-> FALSE]
    /\ g_loggers = [g \in Groups |-> <<>>]
    /\ g_processor = [g \in Groups |-> None]
    /\ InitRecord
    /\ InitEnv

LSetLevel ==
    \E v \in LoggerLevels :
        /\ ~rec.made
        /\ set_level("d1", v)
        /\ result' = NoResult
        /\ UNCHANGED <<groupFrame, d_disabled, d_group, g_level, g_disabled, g_loggers>>
LSetDisabled ==
    \E v \in BOOLEAN :
        /\ ~rec.made
        /\ set_disabled("d1", v)
        /\ result' = NoResult
        /\ UNCHANGED <<groupFrame, d_level, d_group, g_level, g_disabled, g_loggers>>
LSetGroupLevel ==
    \E v \in LoggerLevels :
        /\ ~rec.made
        /\ g_level' = [g_level EXCEPT !["g1"] = v]
        /\ result' = NoResult
        /\ UNCHANGED <<groupFrame, d_level, d_disabled, d_group, g_disabled, g_loggers>>
LAddLogger ==
    /\ ~rec.made
    /\ d_group["d1"] = None
    /\ add_logger("g1", "d1")
    /\ UNCHANGED <<groupFrame, d_level, d_disabled, g_level, g_disabled>>
LLog == \E l \in LogLevels : log_at("d1", "t1", l, None)
LCatchExceptions == \E raised \in BOOLEAN : catch_exceptions("d1", "t1", raised)
LCallHandlersStep ==
    \E hres \in CallOutcomes : call_handlers_step("true", hres, FALSE, None)

NextLogger ==
    \/ LSetLevel
    \/ LSetDisabled
    \/ LSetGroupLevel
    \/ LAddLogger
    \/ LLog
    \/ LCatchExceptions
    \/ LCallHandlersStep

SpecLogger == InitLogger /\ [][NextLogger]_vars

(* ------------------------------------------------------------------ *)
(* Specification of group ownership: two groups are constructed, each  *)
(* with or without an initial list of loggers, and dispatchers are     *)
(* then added to and removed from them                                 *)
(* ------------------------------------------------------------------ *)
OwnerGroups == {"g1", "g2"}

\* the `loggers` argument of LoggerGroup(loggers=...): None or a list
InitialLoggers == {<<>>, <<"d1">>, <<"d2">>, <<"d1", "d2">>}

\* LoggerGroup.__init__ (lines 865-881) for both groups: self.loggers is the
\* list given; the group attribute of the loggers in it is not touched
InitOwnership ==
    /\ InitRegistry
    /\ result = NoResult
    /\ handler = [h \in HandlerIds |-> PlainHandler]
    /\ d_handlers = [d \in Dispatchers |-> <<>>]
    /\ d_level = [d \in Dispatchers |-> Attr(NOTSET)]
    /\ d_disabled = [d \in Dispatchers |-> Missing]
    /\ d_group = [d \in Dispatchers |-> None]
    /\ g_level = [g \in OwnerGroups |-> NOTSET]
    /\ g_disabled = [g \in OwnerGroups |-> FALSE]
    /\ g_loggers \in [OwnerGroups -> InitialLoggers]
    /\ g_processor = [g \in OwnerGroups |-> None]
    /\ InitRecord
    /\ InitEnv

OAddLogger ==
    \E g \in OwnerGroups, d \in Dispatchers :
        /\ add_logger(g, d)
        /\ UNCHANGED <<groupFrame, d_level, d_disabled, g_level, g_disabled>>
ORemoveLogger ==
    \E g \in OwnerGroups, d \in Dispatchers :
        /\ remove_logger(g, d)
        /\ UNCHANGED <<groupFrame, d_level, d_disabled, g_level, g_disabled>>

NextOwnership ==
    \/ OAddLogger
    \/ ORemoveLogger

SpecOwnership == InitOwnership /\ [][NextOwnership]_vars

(* ------------------------------------------------------------------ *)
(* Specification of the frame-derived fields: the operations on one    *)
(* record, with reads of calling_frame and func_name at any time       *)
(* ------------------------------------------------------------------ *)
FReadCallingFrame == read_calling_frame /\ UNCHANGED recordFrame
FReadFuncName == read_func_name /\ UNCHANGED recordFrame

NextFrames ==
    \/ RNewRecord
    \/ RAttachHandler
    \/ RMakeRecordAndHandle
    \/ RHandle
    \/ RCallHandlersStep
    \/ RHeavyInit
    \/ RPullInformation
    \/ RClose
    \/ RToDict
    \/ FReadCallingFrame
    \/ FReadFuncName

SpecFrames == InitOneRecord /\ [][NextFrames]_vars

(* ------------------------------------------------------------------ *)
(* Specification of serialisation: the operations on one record, and   *)
(* to_dict, from_dict on the mapping exported or on that mapping       *)
(* without its flags, and reads of the dispatcher                      *)
(* ------------------------------------------------------------------ *)
FlagKeys == {"heavy_initialized", "late", "keep_open", "information_pulled"}

\* the mapping d without the flag keys
WithoutFlags(d) == [k \in DOMAIN d \ FlagKeys |-> d[k]]

SToDict == export_to_dict /\ UNCHANGED recordFrame
SFromDict ==
    /\ result.op = "to_dict"
    /\ \E d \in {result.val[1], WithoutFlags(result.val[1])} : call_from_dict(d)
    /\ UNCHANGED recordFrame
SReadDispatcher == read_dispatcher /\ UNCHANGED recordFrame

NextSerial ==
    \/ RNewRecord
    \/ RAttachHandler
    \/ RMakeRecordAndHandle
    \/ RHandle
    \/ RCallHandlersStep
    \/ RHeavyInit
    \/ RPullInformation
    \/ RClose
    \/ SToDict
    \/ SFromDict
    \/ SReadDispatcher
    \/ Tick
    \/ Fork

SpecSerial == InitOneRecord /\ [][NextSerial]_vars

(* ------------------------------------------------------------------ *)
(* Specification of nested setups: the registry operations on single   *)
(* objects, and pushes and pops of the nested setups, by any thread    *)
(* ------------------------------------------------------------------ *)
NestedPush ==
    \E sc \in Scopes, t \in Threads, n \in DOMAIN Setups :
        nested_push(sc, t, n) /\ UNCHANGED notRegVars
NestedPop ==
    \E sc \in Scopes, t \in Threads, n \in DOMAIN Setups :
        nested_pop(sc, t, n) /\ UNCHANGED notRegVars

\* the object that is pushed and popped on its own, next to the setups
Single == "h2"

NPushThread ==
    \E t \in Threads :
        push_thread(ClassOf(Single), t, Single) /\ UNCHANGED notRegVars
NPopThread ==
    \E t \in Threads :
        pop_thread(ClassOf(Single), t, Single) /\ UNCHANGED notRegVars
NPushApplication ==
    \E t \in Threads :
        push_application(ClassOf(Single), t, Single) /\ UNCHANGED notRegVars
NPopApplication ==
    \E t \in Threads :
        pop_application(ClassOf(Single), t, Single) /\ UNCHANGED notRegVars

NextNested ==
    \/ NPushThread
    \/ NPopThread
    \/ NPushApplication
    \/ NPopApplication
    \/ IterContextObjects
    \/ NestedPush
    \/ NestedPop

SpecNested == Init /\ [][NextNested]_vars

(* ------------------------------------------------------------------ *)
(* Specification of bound blocks: blocks of the three kinds on single  *)
(* objects and on a setup, with bodies that push and pop, next to      *)
(* pushes outside of blocks                                            *)
(* ------------------------------------------------------------------ *)
\* the thread that runs the blocks; the other one only pushes
BlockThreads == {"t1"}

BoundBlock ==
    \E kind \in BlockKinds, t \in BlockThreads, o \in BoundObjects,
       body \in Bodies, raises \in BOOLEAN :
        bound_block(kind, t, o, body, raises) /\ UNCHANGED notRegVars

NextBound ==
    \/ BoundBlock
    \/ NPushThread
    \/ NPushApplication

SpecBound == Init /\ [][NextBound]_vars

(* ------------------------------------------------------------------ *)
(* Specification of repeated dispatch: as SpecDispatch, and the record *)
(* at hand is handed to handle() again by the second thread, which has *)
(* context handlers of its own                                         *)
(* ------------------------------------------------------------------ *)
IHandle == handle("d1", "t2")

\* the loop of call_handlers with filters that accept or veto, handlers that
\* return or raise and do not keep the record open, and a processor that
\* returns or raises
ICallHandlersStep ==
    \E fres \in {"true", "false"}, hres \in CallOutcomes, pres \in {None, "p1"} :
        call_handlers_step(fres, hres, FALSE, pres)

NextInit ==
    \/ DAttachHandler
    \/ DPushThread
    \/ DPushApplication
    \/ DMakeRecordAndHandle
    \/ ICallHandlersStep
    \/ IHandle

SpecInit == InitDispatch /\ [][NextInit]_vars

(* ------------------------------------------------------------------ *)
(* The registry operations statement by statement, for threads that    *)
(* run them at the same time                                           *)
(* ------------------------------------------------------------------ *)
\* the number of pushes that the threads make between them
MaxSharedPushes == 2

\* the thread enters an operation on class c and object o at position pc
Enter(t, op, c, o, pc) ==
    [IdleThread EXCEPT !.pc = pc, !.op = op, !.cls = c, !.obj = o]

\* thread t is inside of operation op at position pc
At(t, op, pc) == th[t].op = op /\ th[t].pc = pc

\* thread t goes on to position pc
Goto(t, pc) == th' = [th EXCEPT ![t].pc = pc]

\* thread t leaves its operation, which returns val or raises err
Leave(t, val, err) ==
    /\ th' = [th EXCEPT ![t] = IdleThread]
    /\ result' = Outcome(th[t].op, th[t].cls, t, val, err)

\* a pop that looks at the top of the stack before it takes it off
PopTop_if_expected(stack, obj) ==
    IF stack[Len(stack)][2] = obj THEN ButLast(stack) ELSE stack

\* stack.pop() (lines 257, 268): the stack without its top entry
PopTop(stack, obj) == ButLast(stack)

\* line 171: objects = cls._co_cache.get(tid); a hit returns at once
iter_get(t, c) ==
    /\ th[t].pc = "idle"
    /\ IF t \in DOMAIN co_cache[c]
       THEN /\ result' = Outcome("iter_context_objects", c, t, co_cache[c][t], None)
            /\ UNCHANGED th
       ELSE /\ th' = [th EXCEPT ![t] = Enter(t, "iter_context_objects", c, None,
                                             "capacity")]
            /\ UNCHANGED result
    /\ UNCHANGED <<regVars, co_lock>>

\* lines 173-174: the cache is cleared when it holds too many entries
iter_capacity(t) ==
    /\ At(t, "iter_context_objects", "capacity")
    /\ co_cache' = [co_cache EXCEPT ![th[t].cls] =
                       IF Cardinality(DOMAIN @) > MAX_CONTEXT_OBJECT_CACHE
                       THEN EmptyDict ELSE @]
    /\ Goto(t, "copy")
    /\ UNCHANGED <<co_global, co_context, co_stackop, co_lock, result>>

\* line 175: objects = cls._co_global[:]
iter_copy(t) ==
    /\ At(t, "iter_context_objects", "copy")
    /\ th' = [th EXCEPT ![t].pc = "extend", ![t].objects = co_global[th[t].cls]]
    /\ UNCHANGED <<regVars, co_lock, result>>

\* lines 176-178: the stack of the thread is added, the list sorted and the
\* objects taken out of the entries
iter_extend(t) ==
    /\ At(t, "iter_context_objects", "extend")
    /\ th' = [th EXCEPT ![t].pc = "store",
                        ![t].objects = ProjectObjects(SortReverse(
                            th[t].objects \o co_context[th[t].cls][t]))]
    /\ UNCHANGED <<regVars, co_lock, result>>

\* lines 179-180: cls._co_cache[tid] = objects; return iter(objects)
iter_store(t) ==
    /\ At(t, "iter_context_objects", "store")
    /\ co_cache' = [co_cache EXCEPT ![th[t].cls] = DictSet(@, t, th[t].objects)]
    /\ Leave(t, th[t].objects, None)
    /\ UNCHANGED <<co_global, co_context, co_stackop, co_lock>>

\* lines 242 and 253: `with self._co_context_lock:` in push_thread and
\* pop_thread; the thread waits while another thread holds the lock
lock_acquire(t, op, c, o) ==
    /\ th[t].pc = "idle"
    /\ op \in {"push_thread", "pop_thread"}
    /\ op = "push_thread" => TotalPushes < MaxSharedPushes
    /\ co_lock[c] = None
    /\ co_lock' = [co_lock EXCEPT ![c] = t]
    /\ th' = [th EXCEPT ![t] = Enter(t, op, c, o, "invalidate")]
    /\ UNCHANGED <<regVars, result>>

\* lines 243 and 254: self._co_cache.pop(current_thread(), None)
thread_invalidate(t) ==
    /\ th[t].op \in {"push_thread", "pop_thread"}
    /\ th[t].pc = "invalidate"
    /\ co_cache' = [co_cache EXCEPT ![th[t].cls] = DictPop(@, t)]
    /\ Goto(t, IF th[t].op = "push_thread" THEN "append" ELSE "assert_stack")
    /\ UNCHANGED <<co_global, co_context, co_stackop, co_lock, result>>

\* lines 244-249: the entry is made and appended to the stack of the thread
push_thread_append(t) ==
    /\ At(t, "push_thread", "append")
    /\ co_context' = [co_context EXCEPT ![th[t].cls][t] =
                         Append(@, <<co_stackop[th[t].cls], th[t].obj>>)]
    /\ co_stackop' = [co_stackop EXCEPT ![th[t].cls] = @ + 1]
    /\ Goto(t, "release")
    /\ UNCHANGED <<co_global, co_cache, co_lock, result>>

\* lines 255-256: assert stack, 'no objects on stack'
pop_thread_assert_stack(t) ==
    /\ At(t, "pop_thread", "assert_stack")
    /\ IF co_context[th[t].cls][t] = <<>>
       THEN th' = [th EXCEPT ![t].pc = "release", ![t].err = "no objects on stack"]
       ELSE Goto(t, "pop")
    /\ UNCHANGED <<regVars, co_lock, result>>

\* line 257: popped = stack.pop()[1]
pop_thread_pop(t) ==
    /\ At(t, "pop_thread", "pop")
    /\ LET stack == co_context[th[t].cls][t] IN
       /\ co_context' = [co_context EXCEPT ![th[t].cls][t] = PopTop(stack, th[t].obj)]
       /\ th' = [th EXCEPT ![t].pc = "assert_top", ![t].popped = stack[Len(stack)]]
    /\ UNCHANGED <<co_global, co_cache, co_stackop, co_lock, result>>

\* line 258: assert popped is self, 'popped unexpected object'
pop_thread_assert_top(t) ==
    /\ At(t, "pop_thread", "assert_top")
    /\ th' = [th EXCEPT ![t].pc = "release",
                        ![t].err = IF th[t].popped[2] = th[t].obj THEN None
                                   ELSE "popped unexpected object"]
    /\ UNCHANGED <<regVars, co_lock, result>>

\* the end of the `with` block of push_thread and pop_thread, left by the last
\* statement or by the assertion that failed: the lock is released
lock_release(t) ==
    /\ th[t].op \in {"push_thread", "pop_thread"}
    /\ th[t].pc = "release"
    /\ co_lock' = [co_lock EXCEPT ![th[t].cls] = None]
    /\ Leave(t, <<>>, th[t].err)
    /\ UNCHANGED regVars

\* line 262: self._co_global.append((self._co_stackop(), self))
push_application_append(t, c, o) ==
    /\ th[t].pc = "idle"
    /\ TotalPushes < MaxSharedPushes
    /\ co_global' = [co_global EXCEPT ![c] = Append(@, <<co_stackop[c], o>>)]
    /\ co_stackop' = [co_stackop EXCEPT ![c] = @ + 1]
    /\ th' = [th EXCEPT ![t] = Enter(t, "push_application", c, o, "clear")]
    /\ UNCHANGED <<co_context, co_cache, co_lock, result>>

\* lines 263 and 269: self._co_cache.clear()
application_clear(t) ==
    /\ th[t].op \in {"push_application", "pop_application"}
    /\ th[t].pc = "clear"
    /\ co_cache' = [co_cache EXCEPT ![th[t].cls] = EmptyDict]
    /\ IF th[t].op = "push_application"
       THEN Leave(t, <<>>, None)
       ELSE Goto(t, "assert_top") /\ UNCHANGED result
    /\ UNCHANGED <<co_global, co_context, co_stackop, co_lock>>

\* line 267: assert self._co_global, 'no objects on application stack'
pop_application_assert_stack(t, c, o) ==
    /\ th[t].pc = "idle"
    /\ IF co_global[c] = <<>>
       THEN /\ result' = Outcome("pop_application", c, t, <<>>,
                                 "no objects on application stack")
            /\ UNCHANGED th
       ELSE /\ th' = [th EXCEPT ![t] = Enter(t, "pop_application", c, o, "pop")]
            /\ UNCHANGED result
    /\ UNCHANGED <<regVars, co_lock>>

\* line 268: popped = self._co_global.pop()[1]; another thread may have
\* emptied the list since the assertion of line 267: IndexError
pop_application_pop(t) ==
    /\ At(t, "pop_application", "pop")
    /\ LET stack == co_global[th[t].cls] IN
       IF stack = <<>>
       THEN /\ Leave(t, <<>>, "pop from empty list")
            /\ UNCHANGED co_global
       ELSE /\ co_global' = [co_global EXCEPT ![th[t].cls] = PopTop(stack, th[t].obj)]
            /\ th' = [th EXCEPT ![t].pc = "clear", ![t].popped = stack[Len(stack)]]
            /\ UNCHANGED result
    /\ UNCHANGED <<co_context, co_cache, co_stackop, co_lock>>

\* line 270: assert popped is self, 'popped unexpected object'
pop_application_assert_top(t) ==
    /\ At(t, "pop_application", "assert_top")
    /\ Leave(t, <<>>, IF th[t].popped[2] = th[t].obj THEN None
                      ELSE "popped unexpected object")
    /\ UNCHANGED <<regVars, co_lock>>

(* ------------------------------------------------------------------ *)
(* Specification of threads: two threads run the registry operations   *)
(* of the Handler class statement by statement, in any interleaving    *)
(* ------------------------------------------------------------------ *)
\* the class and the objects that the threads push, pop and iterate
SharedClass == "Handler"
SharedObjects == {"h1", "h2"}

threadFrame == <<handler, dispVars, recVars, clock, ospid>>

TIterGet == \E t \in Threads : iter_get(t, SharedClass) /\ UNCHANGED threadFrame
TIterCapacity == \E t \in Threads : iter_capacity(t) /\ UNCHANGED threadFrame
TIterCopy == \E t \in Threads : iter_copy(t) /\ UNCHANGED threadFrame
TIterExtend == \E t \in Threads : iter_extend(t) /\ UNCHANGED threadFrame
TIterStore == \E t \in Threads : iter_store(t) /\ UNCHANGED threadFrame
TLockAcquire ==
    \E t \in Threads, op \in {"push_thread", "pop_thread"}, o \in SharedObjects :
        lock_acquire(t, op, SharedClass, o) /\ UNCHANGED threadFrame
TThreadInvalidate == \E t \in Threads : thread_invalidate(t) /\ UNCHANGED threadFrame
TPushThreadAppend == \E t \in Threads : push_thread_append(t) /\ UNCHANGED threadFrame
TPopThreadAssertStack ==
    \E t \in Threads : pop_thread_assert_stack(t) /\ UNCHANGED threadFrame
TPopThreadPop == \E t \in Threads : pop_thread_pop(t) /\ UNCHANGED threadFrame
TPopThreadAssertTop ==
    \E t \in Threads : pop_thread_assert_top(t) /\ UNCHANGED threadFrame
TLockRelease == \E t \in Threads : lock_release(t) /\ UNCHANGED threadFrame
TPushApplicationAppend ==
    \E t \in Threads, o \in SharedObjects :
        push_application_append(t, SharedClass, o) /\ UNCHANGED threadFrame
TApplicationClear == \E t \in Threads : application_clear(t) /\ UNCHANGED threadFrame
TPopApplicationAssertStack ==
    \E t \in Threads, o \in SharedObjects :
        pop_application_assert_stack(t, SharedClass, o) /\ UNCHANGED threadFrame
TPopApplicationPop == \E t \in Threads : pop_application_pop(t) /\ UNCHANGED threadFrame
TPopApplicationAssertTop ==
    \E t \in Threads : pop_application_assert_top(t) /\ UNCHANGED threadFrame

NextThreads ==
    \/ TIterGet
    \/ TIterCapacity
    \/ TIterCopy
    \/ TIterExtend
    \/ TIterStore
    \/ TLockAcquire
    \/ TThreadInvalidate
    \/ TPushThreadAppend
    \/ TPopThreadAssertStack
    \/ TPopThreadPop
    \/ TPopThreadAssertTop
    \/ TLockRelease
    \/ TPushApplicationAppend
    \/ TApplicationClear
    \/ TPopApplicationAssertStack
    \/ TPopApplicationPop
    \/ TPopApplicationAssertTop

SpecThreads == Init /\ [][NextThreads]_vars

(* ------------------------------------------------------------------ *)
(* Specification of registry changes during a dispatch: handlers are   *)
(* pushed and popped, by either thread and in either scope, while the  *)
(* loop of call_handlers is under way (by a handler, a filter, a       *)
(* processor, or another thread), and before and between dispatches    *)
(* of one thread                                                       *)
(* ------------------------------------------------------------------ *)
\* two handlers that take every record and let it bubble, so that the loop
\* goes on to the end of its list
InitSnapshot ==
    /\ InitRegistry
    /\ result = NoResult
    /\ handler = [h \in HandlerIds |-> [PlainHandler EXCEPT !.bubble = TRUE]]
    /\ InitDispatchers
    /\ InitRecord
    /\ InitEnv

XPushThread ==
    \E t \in Threads, o \in HandlerIds :
        push_thread("Handler", t, o) /\ UNCHANGED notRegVars
XPopThread ==
    \E t \in Threads, o \in HandlerIds :
        pop_thread("Handler", t, o) /\ UNCHANGED notRegVars
XPushApplication ==
    \E t \in Threads, o \in HandlerIds :
        push_application("Handler", t, o) /\ UNCHANGED notRegVars
XPopApplication ==
    \E t \in Threads, o \in HandlerIds :
        pop_application("Handler", t, o) /\ UNCHANGED notRegVars
XMakeRecordAndHandle == make_record_and_handle("d1", "t1", INFO, None)
XCallHandlersStep == call_handlers_step("true", "true", FALSE, None)

NextSnapshot ==
    \/ XPushThread
    \/ XPopThread
    \/ XPushApplication
    \/ XPopApplication
    \/ XMakeRecordAndHandle
    \/ XCallHandlersStep

SpecSnapshot == InitSnapshot /\ [][NextSnapshot]_vars

(* ------------------------------------------------------------------ *)
(* Specification of the cache capacity: more threads than the cache    *)
(* may hold entries iterate, push and pop. The capacity of 256 is      *)
(* scaled down to ScaledCacheLimit, the code being the same for every  *)
(* capacity: `if len(cls._co_cache) > capacity: clear()`               *)
(* ------------------------------------------------------------------ *)
ScaledCacheLimit == 1
CacheThreads == {"t1", "t2", "t3"}

InitCache ==
    /\ co_global = [c \in Classes |-> <<>>]
    /\ co_context = [c \in Classes |-> [t \in CacheThreads |-> <<>>]]
    /\ co_cache = [c \in Classes |-> EmptyDict]
    /\ co_stackop = [c \in Classes |-> 0]
    /\ result = NoResult
    /\ handler = [h \in HandlerIds |-> PlainHandler]
    /\ InitDispatchers
    /\ InitRecord
    /\ InitEnv

\* iter_context_objects with the scaled capacity, run by thread tid
iter_context_objects_scaled(cls, tid) ==
    /\ co_cache' = [co_cache EXCEPT ![cls] = IterCacheAt(ScaledCacheLimit, cls, tid)]
    /\ result' = Outcome("iter_context_objects", cls, tid, IterObjects(cls, tid), None)
    /\ UNCHANGED <<co_global, co_context, co_stackop>>

CIter ==
    \E t \in CacheThreads :
        iter_context_objects_scaled("Handler", t) /\ UNCHANGED notRegVars
CPushThread ==
    \E t \in CacheThreads, o \in HandlerIds :
        push_thread("Handler", t, o) /\ UNCHANGED notRegVars
CPopThread ==
    \E t \in CacheThreads, o \in HandlerIds :
        pop_thread("Handler", t, o) /\ UNCHANGED notRegVars
CPushApplication ==
    \E t \in CacheThreads, o \in HandlerIds :
        push_application("Handler", t, o) /\ UNCHANGED notRegVars
CPopApplication ==
    \E t \in CacheThreads, o \in HandlerIds :
        pop_application("Handler", t, o) /\ UNCHANGED notRegVars

NextCache ==
    \/ CIter
    \/ CPushThread
    \/ CPopThread
    \/ CPushApplication
    \/ CPopApplication

SpecCache == InitCache /\ [][NextCache]_vars

(* ------------------------------------------------------------------ *)
(* Specification of processors: two processors are pushed and popped   *)
(* in either scope, to the stack of either thread, and a handler by    *)
(* thread t1; the logger is in a group with a processor or in none,    *)
(* and thread t1 dispatches                                            *)
(* ------------------------------------------------------------------ *)
OrderedProcessors == {"p1", "p2"}

InitProcess ==
    /\ InitRegistry
    /\ result = NoResult
    /\ handler = [h \in HandlerIds |-> PlainHandler]
    /\ d_handlers = [d \in Dispatchers |-> <<"h1">>]
    /\ d_level = [d \in Dispatchers |-> Attr(NOTSET)]
    /\ d_disabled = [d \in Dispatchers |-> Missing]
    /\ \E g \in {None, "g1"} :
           /\ d_group = [d \in Dispatchers |-> IF d = "d1" THEN g ELSE None]
           /\ g_loggers = [h \in Groups |-> IF g = None THEN <<>> ELSE <<"d1">>]
    /\ g_level = [g \in Groups |-> NOTSET]
    /\ g_disabled = [g \in Groups |-> FALSE]
    /\ g_processor = [g \in Groups |-> "callable"]
    /\ InitRecord
    /\ InitEnv

YPushThread ==
    \E t \in Threads, o \in OrderedProcessors :
        run.pc = "idle" /\ push_thread("Processor", t, o) /\ UNCHANGED notRegVars
YPopThread ==
    \E t \in Threads, o \in OrderedProcessors :
        run.pc = "idle" /\ pop_thread("Processor", t, o) /\ UNCHANGED notRegVars
YPushApplication ==
    \E o \in OrderedProcessors :
        run.pc = "idle" /\ push_application("Processor", "t1", o)
                        /\ UNCHANGED notRegVars
YPopApplication ==
    \E o \in OrderedProcessors :
        run.pc = "idle" /\ pop_application("Processor", "t1", o)
                        /\ UNCHANGED notRegVars
YPushHandler ==
    \/ push_thread("Handler", "t1", "h2") /\ UNCHANGED notRegVars
    \/ push_application("Handler", "t1", "h2") /\ UNCHANGED notRegVars
YPopHandler ==
    \/ pop_thread("Handler", "t1", "h2") /\ UNCHANGED notRegVars
    \/ pop_application("Handler", "t1", "h2") /\ UNCHANGED notRegVars
YMakeRecordAndHandle == make_record_and_handle("d1", "t1", INFO, None)
YCallHandlersStep ==
    \E pres \in {None, "group", "p1"} :
        call_handlers_step("true", "true", FALSE, pres)

NextProcess ==
    \/ YPushThread
    \/ YPopThread
    \/ YPushApplication
    \/ YPopApplication
    \/ YPushHandler
    \/ YPopHandler
    \/ YMakeRecordAndHandle
    \/ YCallHandlersStep

SpecProcess == InitProcess /\ [][NextProcess]_vars

(* ------------------------------------------------------------------ *)
(* Specification of pops: both threads push handler h1 and pop h1 or   *)
(* h2, in thread and in application scope, statement by statement,     *)
(* while thread t1 fills the cache with iter_context_objects           *)
(* ------------------------------------------------------------------ *)
PushedObject == "h1"
IterThread == "t1"

PIterGet == iter_get(IterThread, SharedClass) /\ UNCHANGED threadFrame
PIterCapacity == iter_capacity(IterThread) /\ UNCHANGED threadFrame
PIterCopy == iter_copy(IterThread) /\ UNCHANGED threadFrame
PIterExtend == iter_extend(IterThread) /\ UNCHANGED threadFrame
PIterStore == iter_store(IterThread) /\ UNCHANGED threadFrame
PPushThread ==
    \E t \in Threads :
        lock_acquire(t, "push_thread", SharedClass, PushedObject)
            /\ UNCHANGED threadFrame
PPopThread ==
    \E t \in Threads, o \in SharedObjects :
        lock_acquire(t, "pop_thread", SharedClass, o) /\ UNCHANGED threadFrame
PPushApplicationAppend ==
    \E t \in Threads :
        push_application_append(t, SharedClass, PushedObject)
            /\ UNCHANGED threadFrame

NextPops ==
    \/ PIterGet
    \/ PIterCapacity
    \/ PIterCopy
    \/ PIterExtend
    \/ PIterStore
    \/ PPushThread
    \/ PPopThread
    \/ TThreadInvalidate
    \/ TPushThreadAppend
    \/ TPopThreadAssertStack
    \/ TPopThreadPop
    \/ TPopThreadAssertTop
    \/ TLockRelease
    \/ PPushApplicationAppend
    \/ TApplicationClear
    \/ TPopApplicationAssertStack
    \/ TPopApplicationPop
    \/ TPopApplicationAssertTop

SpecPops == Init /\ [][NextPops]_vars

(* ------------------------------------------------------------------ *)
(* Claims about the registry                                           *)
(* ------------------------------------------------------------------ *)
\* the entries a thread can see: the application stack and its own stack
Entries(cls, tid) ==
    {co_global[cls][i] : i \in 1..Len(co_global[cls])}
        \cup {ThreadStack(cls, tid)[i] : i \in 1..Len(ThreadStack(cls, tid))}

\* the object of the entry of E that has exactly i-1 entries pushed after it
RankedObject(E, i) ==
    (CHOOSE e \in E : Cardinality({f \in E : f[1] > e[1]}) = i - 1)[2]

\* C1: what iter_context_objects returns to thread T for a class is exactly
\* the objects on the application stack and on T's stack of that class, one
\* per entry, in strictly decreasing order of the sequence number of the push
C1_ContextOrdering ==
    result.op = "iter_context_objects" =>
        LET E == Entries(result.cls, result.tid) IN
        /\ Len(result.val) = Len(co_global[result.cls])
                               + Len(ThreadStack(result.cls, result.tid))
        /\ Len(result.val) = Cardinality(E)
        /\ \A i \in 1..Len(result.val) : result.val[i] = RankedObject(E, i)

\* an iteration that saw an application entry pushed between two thread entries
C1_Witness ==
    /\ result.op = "iter_context_objects"
    /\ Len(co_global[result.cls]) = 1
    /\ Len(ThreadStack(result.cls, result.tid)) = 2
    /\ ThreadStack(result.cls, result.tid)[1][1] < co_global[result.cls][1][1]
    /\ co_global[result.cls][1][1] < ThreadStack(result.cls, result.tid)[2][1]
    /\ Len(result.val) = 3

\* C2: every cached list, and every list iter_context_objects returns, equals
\* the list rebuilt from scratch from the stacks as they are now
C2_CacheCorrect ==
    /\ \A c \in Classes : \A t \in DOMAIN co_cache[c] :
           co_cache[c][t] = BuildObjects(c, t)
    /\ result.op = "iter_context_objects" =>
           result.val = BuildObjects(result.cls, result.tid)

\* both threads hold a cached list, the lists differ, and an entry was popped
\* since the class started counting
C2_Witness ==
    /\ result.op = "iter_context_objects"
    /\ DOMAIN co_cache[result.cls] = Threads
    /\ co_cache[result.cls]["t1"] # co_cache[result.cls]["t2"]
    /\ co_global[result.cls] # <<>>
    /\ co_stackop[result.cls] >
           Len(co_global[result.cls]) + Len(ThreadStack(result.cls, "t1"))
               + Len(ThreadStack(result.cls, "t2"))

(* ------------------------------------------------------------------ *)
(* Claims about the dispatch                                           *)
(* ------------------------------------------------------------------ *)
\* a dispatch has run to its end
Finished == rec.made /\ run.pc = "idle"

\* the events of one kind in the log
EventsOf(kind) == SelectSeq(log, LAMBDA e : e.ev = kind)

\* the handlers the loop looked at so far, in order
Consulted == [k \in 1..Len(EventsOf("visit")) |-> EventsOf("visit")[k].who]

\* the handlers whose handle() was called, in order
Handled == [k \in 1..Len(EventsOf("handle")) |-> EventsOf("handle")[k].who]

IsConsulted(h) == \E k \in 1..Len(Consulted) : Consulted[k] = h

\* the dispatch order of a record logged through d1 on thread t1, from the
\* stacks: the attached handlers, then the handlers on the application stack
\* and on the stack of t1 by decreasing sequence number
DispatchOrder ==
    d_handlers["d1"] \o
        [i \in 1..Cardinality(Entries("Handler", "t1")) |->
            RankedObject(Entries("Handler", "t1"), i)]

\* the place of a handler in the dispatch order
Place(h) == CHOOSE i \in 1..Len(DispatchOrder) : DispatchOrder[i] = h

\* the traversal ended at h although handlers were left
EndedAt(h) ==
    /\ Finished
    /\ IsConsulted(h)
    /\ Place(h) < Len(DispatchOrder)
    /\ ~IsConsulted(DispatchOrder[Place(h) + 1])

\* whether heavy_init, a processor, a filter or a handle was called
WorkDone == \E k \in 1..Len(log) : log[k].ev \in {"heavy_init", "process", "filter", "handle"}

\* the call of h's filter or handle that returned ret
Returned(kind, h, ret) ==
    \E k \in 1..Len(log) : log[k].ev = kind /\ log[k].who = h /\ log[k].ret = ret

C4_Original ==
    \A h \in HandlerIds :
        /\ (Returned("handle", h, "true") /\ ~handler[h].bubble)
               => \A k \in 1..Len(log) :
                      (log[k].ev = "handle" /\ log[k].who = h) => k = Len(log)
        /\ handler[h].bubble => ~EndedAt(h)
        /\ (Returned("filter", h, "false") \/ Returned("handle", h, "false"))
               => ~EndedAt(h)

\* C4, amended: as stated, but a handler that bubbles never ends the traversal
\* provided it is not a blackhole and the calls made for it (processors, its
\* filter, its handle) return
C4_BubbleSemantics ==
    \A h \in HandlerIds :
        /\ (Returned("handle", h, "true") /\ ~handler[h].bubble)
               => \A k \in 1..Len(log) :
                      (log[k].ev = "handle" /\ log[k].who = h) => k = Len(log)
        /\ (handler[h].bubble /\ ~handler[h].blackhole /\ ~Raised(log))
               => ~EndedAt(h)
        /\ (Returned("filter", h, "false") \/ Returned("handle", h, "false"))
               => ~EndedAt(h)

\* a bubbling handler took the record and the next handler was looked at
C4_Witness ==
    /\ Finished
    /\ Len(DispatchOrder) = 2
    /\ handler[DispatchOrder[1]].bubble
    /\ Returned("handle", DispatchOrder[1], "true")
    /\ Consulted = DispatchOrder

C7_CloseOut ==
    (run.pc = "idle" /\ result.op = "make_record_and_handle") =>
        /\ rec.late
        /\ (result.err = "raised") <=> Raised(log)
        /\ ~rec.keep_open =>
               /\ rec.exc_info = None
               /\ rec.frame = None
               /\ rec.calling_frame = Attr(None)
        /\ rec.keep_open =>
               /\ Handled # <<>>
               /\ rec.exc_info = log[1].ret
               /\ rec.frame = FrameCallHandlers
               /\ ~rec.calling_frame.has

\* a handler raised, and the record, made with exc_info, was closed all the same
C7_Witness ==
    /\ run.pc = "idle" /\ result.op = "make_record_and_handle"
    /\ result.err = "raised"
    /\ \E k \in 1..Len(log) : log[k].ev = "handle" /\ log[k].ret = "raise"
    /\ log[1].ret = "exc_info"
    /\ rec.heavy_initialized
    /\ rec.late /\ rec.exc_info = None /\ rec.frame = None

(* ------------------------------------------------------------------ *)
(* Claims about the groups                                             *)
(* ------------------------------------------------------------------ *)
\* a dispatch through d has just ended
DispatchEnded(d) ==
    /\ run.pc = "idle"
    /\ result.op \in {"make_record_and_handle", "handle"}
    /\ result.val = <<d>>

\* a dispatch through d begins in this step: the traversal is entered, or the
\* call returns at once
DispatchBegins(d) ==
    /\ run.pc = "idle"
    /\ \/ run'.pc # "idle" /\ run'.d = d
       \/ /\ run'.pc = "idle"
          /\ result'.op \in {"make_record_and_handle", "handle"}
          /\ result'.val = <<d>>
          /\ <<rec, log, result>>' # <<rec, log, result>>

\* C5: a record passed to handle(), or made by make_record_and_handle, whose
\* level is below the effective level of the dispatcher, or whose dispatcher
\* is effectively disabled, does not reach call_handlers: the call returns at
\* once and normally, no handler is looked at, heavy_init is not called, no
\* processor runs, the caches are not touched, and a record made for the call
\* is not heavy-initialised
C5_ThresholdGating ==
    [][\A d \in Dispatchers :
          (DispatchBegins(d) /\ (Disabled(d) \/ rec'.level < Level(d))) =>
              /\ run'.pc = "idle"
              /\ Consulted' = <<>>
              /\ ~WorkDone'
              /\ result'.err = None
              /\ co_cache' = co_cache
              /\ result'.op = "make_record_and_handle" => ~rec'.heavy_initialized]_vars

\* an INFO record, which the attached handler would take, is stopped by the
\* level ERROR that the dispatcher inherits from its group
C5_Witness ==
    /\ DispatchEnded("d1")
    /\ result.op = "make_record_and_handle"
    /\ d_group["d1"] = "g1" /\ g_level["g1"] = ERROR /\ Level("d1") = ERROR
    /\ ~Disabled("d1")
    /\ rec.level = INFO
    /\ handler[d_handlers["d1"][1]].level = INFO
    /\ Consulted = <<>>

\* the level and the disabled flag of a dispatcher as the claim words them
ClaimedLevel(d) ==
    IF d_level[d].has /\ d_level[d].v # NOTSET THEN d_level[d].v
    ELSE IF d_group[d] = None THEN NOTSET
    ELSE g_level[d_group[d]]

ClaimedDisabled(d) ==
    IF d_disabled[d].has THEN d_disabled[d].v
    ELSE IF d_group[d] = None THEN FALSE
    ELSE g_disabled[d_group[d]]

\* C10: in every state, and so at the next read after any edit of the
\* dispatcher or of its group, the level of a dispatcher is its own level when
\* that is set and not NOTSET, else the level of its group, else NOTSET; its
\* disabled flag is its own when set, else that of its group, else false
C10_GroupReflection ==
    /\ \A d \in Dispatchers :
          /\ Level(d) = ClaimedLevel(d)
          /\ Disabled(d) = ClaimedDisabled(d)
    /\ result.op = "level" => result.val[2] = ClaimedLevel(result.val[1])
    /\ result.op = "disabled" => result.val[2] = ClaimedDisabled(result.val[1])

\* both dispatchers are in the group, whose level is INFO: d1 overrides it
\* with ERROR, d2 had its level deleted and is read as INFO
C10_Witness ==
    /\ d_group["d1"] = "g1" /\ d_group["d2"] = "g1"
    /\ g_level["g1"] = INFO
    /\ d_level["d1"].has /\ Level("d1") = ERROR
    /\ ~d_level["d2"].has
    /\ d_disabled["d1"].has /\ g_disabled["g1"] /\ ~Disabled("d1")
    /\ Disabled("d2")
    /\ result.op = "level" /\ result.val = <<"d2", INFO>>

(* ------------------------------------------------------------------ *)
(* Claims about a record                                               *)
(* ------------------------------------------------------------------ *)
\* C8, as stated: once heavy_initialized is true, time, process and frame of
\* the record are the same in every later state
C8_Original ==
    [][(rec.made /\ rec.heavy_initialized) =>
          /\ rec'.time = rec.time
          /\ rec'.process = rec.process
          /\ rec'.frame = rec.frame]_vars

\* C8: once heavy_initialized is true it stays true and time and process of
\* the record never change; frame keeps its value until close(), called by
\* the application or by make_record_and_handle, sets it to null, and is null
\* from then on
C8_HeavyFieldsWriteOnce ==
    [][(rec.made /\ rec.heavy_initialized) =>
          /\ rec'.heavy_initialized
          /\ rec'.time = rec.time
          /\ rec'.process = rec.process
          /\ rec'.frame \in {rec.frame, None}
          /\ rec'.frame # rec.frame =>
                /\ rec'.late
                /\ result'.op \in {"close", "make_record_and_handle"}]_vars

\* a record initialised at an earlier time in the parent process, closed, and
\* then handed to heavy_init again: it keeps time and process, its frame is null
C8_Witness ==
    /\ rec.made /\ rec.heavy_initialized /\ rec.late
    /\ rec.time # Unset /\ rec.time < clock
    /\ rec.process # Unset /\ rec.process # ospid
    /\ rec.frame = None
    /\ result.op = "heavy_init"

\* C9, as stated: a call of heavy_init on a late record fails, whatever the
\* value of heavy_initialized
C9_Original ==
    (rec.made /\ rec.late /\ result.op = "heavy_init") => result.err # None

\* C9: a call of heavy_init on a late record fails exactly when the record is
\* not heavy-initialised; on a late record that is heavy-initialised it
\* returns normally; in both cases the record is left as it was
C9_HeavyInitTooLate ==
    [][(rec.made /\ rec.late /\ result'.op = "heavy_init") =>
          /\ rec' = rec
          /\ result'.err # None <=> ~rec.heavy_initialized]_vars

\* heavy_init has returned normally on a late, heavy-initialised record
C9_Witness ==
    /\ rec.made /\ rec.late /\ rec.heavy_initialized
    /\ result.op = "heavy_init" /\ result.err = None

(* ------------------------------------------------------------------ *)
(* Claims about the logger interface                                   *)
(* ------------------------------------------------------------------ *)
\* the with block of the catcher was left by a failure and no record was made
CaughtSilently == result.op = "catch_exceptions" /\ result.val[2] = "raised"

\* the with block of the catcher was left without a failure
LeftNormally == result.op = "catch_exceptions" /\ result.val[2] = "returned"

\* the with block of the catcher was left by a failure, logger.error made a
\* record and its dispatch is over (the entry points log without exc_info)
CaughtAndLogged ==
    /\ Finished
    /\ result.op = "make_record_and_handle"
    /\ log[1].ev = "LogRecord" /\ log[1].ret = "exc_info"

\* a record was made for a with block that no failure ended
LoggedWithoutFailure ==
    \E k \in 1..Len(log) : log[k].ev = "LogRecord" /\ log[k].ret = ExcInfo(FALSE)

\* C11, as stated: a with block left by a failure E produces exactly one
\* record, of level ERROR, with exc_info E, and the block ends normally; a
\* block left without a failure produces no record
C11_Original ==
    /\ ~CaughtSilently
    /\ CaughtAndLogged =>
          /\ Len(EventsOf("LogRecord")) = 1
          /\ rec.level = ERROR
          /\ result.err = None
    /\ LeftNormally => (log = <<>> /\ result.err = None)
    /\ ~LoggedWithoutFailure

\* C11: a with block left by a failure E produces exactly one record, of level
\* ERROR and with exc_info E, when the effective level of the logger is at
\* most ERROR, and no record when it is above ERROR; E is absorbed in both
\* cases, and the block ends by a failure only when the dispatch of the record
\* (a handler) raised; a block left without a failure produces no record
C11_ExceptionCatcher ==
    /\ CaughtSilently =>
          (Level(result.val[1]) > ERROR /\ log = <<>> /\ result.err = None)
    /\ CaughtAndLogged =>
          /\ Level(result.val[1]) <= ERROR
          /\ Len(EventsOf("LogRecord")) = 1
          /\ rec.level = ERROR
          /\ result.err # None => Raised(log)
    /\ LeftNormally => (log = <<>> /\ result.err = None)
    /\ ~LoggedWithoutFailure

\* the body raised, the record was made and handled, the block ended normally
C11_Witness ==
    /\ CaughtAndLogged
    /\ rec.level = ERROR
    /\ Handled # <<>>
    /\ result.err = None

\* h ended the traversal: its handle raised, or returned true without bubbling
Stopped(h) ==
    \/ Returned("handle", h, "raise")
    \/ Returned("handle", h, "true") /\ ~handler[h].bubble

\* every handler that takes records of this level and is not a blackhole had
\* its handle called, unless an earlier handler ended the traversal
Delivered ==
    \A i \in 1..Len(DispatchOrder) :
        ( /\ handler[DispatchOrder[i]].level <= rec.level
          /\ \A j \in 1..Len(DispatchOrder) : ~handler[DispatchOrder[j]].blackhole
          /\ \A j \in 1..(i - 1) : ~Stopped(DispatchOrder[j]) )
            => \E k \in 1..Len(Handled) : Handled[k] = DispatchOrder[i]

Owners(d) ==
    {g \in DOMAIN g_loggers : \E i \in 1..Len(g_loggers[g]) : g_loggers[g][i] = d}

\* C13, as stated: every dispatcher is in the loggers list of at most one
\* group, its group is null or the one group whose list holds it, and
\* add_logger on a dispatcher that has a group fails and changes nothing
C13_Original ==
    [][/\ \A d \in Dispatchers :
             /\ Cardinality(Owners(d)) <= 1
             /\ d_group[d] = None \/ Owners(d) = {d_group[d]}
       /\ \A d \in Dispatchers :
             (d_group[d] # None /\ result'.op = "add_logger" /\ result'.val[2] = d
                 /\ result' # result)
               => (result'.err # None /\ UNCHANGED <<d_group, g_loggers>>)]_vars

(* ------------------------------------------------------------------ *)
(* Claims about pops                                                   *)
(* ------------------------------------------------------------------ *)
\* obj is on top of the stack
OnTop(stack, obj) == stack # <<>> /\ stack[Len(stack)][2] = obj

\* C14: pop_thread on an object raises to its caller exactly when the stack
\* of the calling thread is empty or another object is on top of it, and
\* returns normally when the object is on top; likewise pop_application and
\* the application stack
C14_StackMisuseReported ==
    [][\A cls \in Classes, tid \in Threads :
           \A obj \in ObjectsOf(cls) :
               /\ pop_thread(cls, tid, obj) =>
                     (result'.err = None <=> OnTop(ThreadStack(cls, tid), obj))
               /\ pop_application(cls, tid, obj) =>
                     (result'.err = None <=> OnTop(co_global[cls], obj))]_vars

\* a pop of an object that is not the one on top was reported, with objects
\* still on the stack
C14_Witness ==
    /\ result.op = "pop_thread"
    /\ result.err = "popped unexpected object"
    /\ \E tid \in Threads : ThreadStack("Handler", tid) # <<>>

(* ------------------------------------------------------------------ *)
(* Claims about the frame-derived fields                               *)
(* ------------------------------------------------------------------ *)
\* the field holds a value that is not null in the next state and did not
\* hold that value before
NewValue(field) ==
    /\ rec'[field].has /\ rec'[field].v # None
    /\ ~(rec[field].has /\ rec[field].v = rec'[field].v)

\* a read in this step returned a value that is not null and was not cached
FreshRead ==
    \/ result'.op = "calling_frame" /\ result' # result
           /\ result'.val[1] # None /\ ~rec.calling_frame.has
    \/ result'.op = "func_name" /\ result' # result
           /\ result'.val[1] # None /\ ~rec.func_name.has

\* C15, as stated: once late is true, no frame-derived field takes a new value
\* that is not null, and a field that was not cached reads as null, also for
\* a record kept open by a handler
C15_Original ==
    [][(rec.made /\ rec.late) =>
          /\ ~NewValue("calling_frame")
          /\ ~NewValue("func_name")
          /\ ~FreshRead]_vars

\* C15: a late record has a frame only if a handler kept it open; once a
\* record is late and closed (its frame is null), no frame-derived field
\* takes a new value that is not null and a field that was not cached reads
\* as null; the frame stays null
C15_LateInvariant ==
    [][(rec.made /\ rec.late) =>
          /\ rec.frame # None => rec.keep_open
          /\ rec.frame = None =>
                /\ ~NewValue("calling_frame")
                /\ ~NewValue("func_name")
                /\ ~FreshRead
                /\ rec'.frame = None]_vars

\* a closed record whose func_name was cached before and whose calling_frame
\* reads as null
C15_Witness ==
    /\ rec.made /\ rec.late /\ rec.frame = None
    /\ rec.func_name.has /\ rec.func_name.v # None
    /\ result.op = "calling_frame" /\ result.val = <<None>>

(* ------------------------------------------------------------------ *)
(* Claims about serialisation                                          *)
(* ------------------------------------------------------------------ *)
\* a mapping that to_dict returned: to_dict pulls first, so the flag is in it
IsExport(d) == "information_pulled" \in DOMAIN d

\* C16: for every record r, from_dict(r.to_dict()).to_dict() equals
\* r.to_dict(); the mapping has none of frame, calling_frame, exc_info and no
\* key that starts with an underscore; a second to_dict returns an equal
\* mapping; and so it is for the mappings the operations returned
C16_RoundTrip ==
    /\ rec.made =>
          LET t == to_dict(rec) IN
          /\ to_dict(from_dict(t.d)).d = t.d
          /\ \A k \in DOMAIN t.d : k \notin NonedOnClose /\ k \notin PrivateKeys
          /\ to_dict(t.rec).d = t.d
    /\ result.op = "to_dict" => to_dict(rec).d = result.val[1]
    /\ (result.op = "from_dict" /\ IsExport(result.val[1])) =>
          to_dict(rec).d = result.val[1]

\* a record rebuilt from the export of a heavy-initialised, pulled and closed
\* record that had an exception
C16_Witness ==
    /\ result.op = "from_dict"
    /\ IsExport(result.val[1])
    /\ {"heavy_initialized", "late", "time", "func_name"} \subseteq DOMAIN result.val[1]
    /\ result.val[1]["func_name"] # None
    /\ rec.restored

\* C17, as stated: on a record made by from_dict, heavy_init, called directly
\* or through a dispatch, leaves time, process and frame as they were, the
\* frame being null, and a read of its dispatcher returns null
C17_Original ==
    [][(rec'.made /\ rec'.restored) =>
          /\ rec'.frame = None
          /\ rec.restored => (rec'.time = rec.time /\ rec'.process = rec.process)
          /\ result'.op = "dispatcher" => result'.err = None]_vars

(* ------------------------------------------------------------------ *)
(* Claims about nested setups                                          *)
(* ------------------------------------------------------------------ *)
\* the members of setup n that are of class c, in list order, nested setups
\* replaced by their members
MembersOf(n, c) == SelectSeq(Flat(<<n>>), LAMBDA o : ClassOf(o) = c)

\* the stack of class c that a push or pop of the scope works on
StackIn(reg, sc, t, c) == IF sc = "thread" THEN reg.context[c][t] ELSE reg.global[c]

\* the entries that a push of setup n appends to the stack of class c when
\* the counter of the class is at `from`
Pushed(n, c, from) ==
    [i \in 1..Len(MembersOf(n, c)) |-> <<from + i - 1, MembersOf(n, c)[i]>>]

\* the stack of class c ends with the members of n, in list order
EndsWithMembers(stack, n, c) ==
    LET m == MembersOf(n, c) IN
    /\ Len(stack) >= Len(m)
    /\ \A i \in 1..Len(m) : stack[Len(stack) - Len(m) + i][2] = m[i]

\* a balanced operation between a push and its pop: nothing, or the push and
\* the pop of one more stacked object, a single one or a setup, in either
\* scope, by either thread
InnerObjects == {"h2", "n1"}
Balanced == {<<>>} \cup
    { <<o, sc, t>> : o \in InnerObjects, sc \in Scopes, t \in Threads }
Between(reg, b) ==
    IF b = <<>> THEN Running(reg)
    ELSE PopStacked(Running(PushStacked(reg, b[2], b[3], b[1])), b[2], b[3], b[1])

\* the registries after b is run and setup n is popped
ThenPop(reg, sc, t, n, b) ==
    LET mid == Between(reg, b)
    IN IF mid.err # None THEN mid ELSE PopStacked(mid, sc, t, n)

\* a push of a setup appends its members to the stacks in list order
C18_PushInOrder ==
    LET sc == result'.cls
        t == result'.tid
        n == result'.val[1]
    IN  result'.op = "nested_push" /\ nested_push(sc, t, n) =>
            \A c \in Classes :
                /\ StackIn(Registry', sc, t, c) =
                       StackIn(Registry, sc, t, c) \o Pushed(n, c, co_stackop[c])
                /\ IterIn(Registry', c, t) =
                       Reversed(MembersOf(n, c)) \o IterIn(Registry, c, t)

\* a pop of a setup that reports no misuse has removed its members from the
\* tops of the stacks, and a pop right after the push of the same setup
\* reports none
C18_PopInReverse ==
    LET sc == result'.cls
        t == result'.tid
        n == result'.val[1]
    IN  result'.op = "nested_pop" /\ nested_pop(sc, t, n) =>
            /\ result'.err = None =>
                   \A c \in Classes :
                       /\ EndsWithMembers(StackIn(Registry, sc, t, c), n, c)
                       /\ StackIn(Registry', sc, t, c) =
                              SubSeq(StackIn(Registry, sc, t, c), 1,
                                     Len(StackIn(Registry, sc, t, c))
                                         - Len(MembersOf(n, c)))
            /\ result = Outcome("nested_push", sc, t, <<n>>, None) =>
                   result'.err = None

\* after the push of a setup, a balanced operation and the pop of the setup
\* report no misuse and leave the stacks and the iteration results as they
\* were before the push
C18_Restores ==
    LET sc == result'.cls
        t == result'.tid
        n == result'.val[1]
    IN  result'.op = "nested_push" /\ nested_push(sc, t, n) =>
            \A b \in Balanced :
                LET st == ThenPop(Registry', sc, t, n, b) IN
                /\ st.err = None
                /\ st.reg.global = co_global
                /\ st.reg.context = co_context
                /\ \A c \in Classes, u \in Threads :
                       IterIn(st.reg, c, u) = IterIn(Registry, c, u)

\* C18: a NestedSetup pushes its members in list order, so that they get
\* increasing sequence numbers and iteration yields them in reverse list
\* order; its pop removes them in reverse list order; a push followed by the
\* matching pop with only balanced operations in between reports no stack
\* misuse and restores the stacks and the iteration results, also for a setup
\* whose members are setups
C18_NestedSetup ==
    [][C18_PushInOrder /\ C18_PopInReverse /\ C18_Restores]_vars

\* the setup n2, which holds the setup n1, was pushed and popped again by a
\* thread and the pop reported no misuse
C18_Witness ==
    /\ result = Outcome("nested_pop", "thread", "t1", <<"n2">>, None)
    /\ TotalPushes = 3
    /\ \A c \in Classes : co_context[c]["t1"] = <<>> /\ co_global[c] = <<>>

(* ------------------------------------------------------------------ *)
(* Claims about bound blocks                                           *)
(* ------------------------------------------------------------------ *)
\* the step is a bound block: its kind, scope, thread, object, body, whether
\* the body ends by raising, and the exception that left the body
BlockStep ==
    /\ result'.op \in BlockKinds
    /\ bound_block(result'.op, result'.tid, result'.val[1], result'.val[2],
                   result'.val[3])
BlockObject == result'.val[1]
BlockBody == result'.val[2]
BlockLeft == result'.val[4]

RECURSIVE Matched(_, _)
\* the pushes and pops of a body are balanced: every pop is of the object
\* pushed last in its scope and not yet popped, and nothing stays pushed
\* (open: per scope, the objects pushed and not yet popped)
Matched(body, open) ==
    IF body = <<>> THEN \A sc \in Scopes : open[sc] = <<>>
    ELSE LET op == Head(body)
             o == open[op.scope]
         IN IF op.push
            THEN Matched(Tail(body), [open EXCEPT ![op.scope] = Append(o, op.obj)])
            ELSE /\ o # <<>>
                 /\ o[Len(o)] = op.obj
                 /\ Matched(Tail(body), [open EXCEPT ![op.scope] = ButLast(o)])
BalancedBody(body) == Matched(body, [sc \in Scopes |-> <<>>])

\* the entries pushed on entry to the block are on no stack of the scope
\* after the block
Released ==
    \A c \in Classes :
        \A i \in 1..Len(MembersOf(BlockObject, c)) :
            \A j \in 1..Len(StackIn(Registry', result'.cls, result'.tid, c)) :
                StackIn(Registry', result'.cls, result'.tid, c)[j]
                    # Pushed(BlockObject, c, co_stackop[c])[i]

\* the stacks of the scope of the block are as they were before the block
SameStacks ==
    \A c \in Classes :
        StackIn(Registry', result'.cls, result'.tid, c) =
            StackIn(Registry, result'.cls, result'.tid, c)

\* the registries that the body of the block leaves
AfterBody ==
    RunBody(Running(PushStacked(Registry, result'.cls, result'.tid, BlockObject)),
            result'.tid, BlockBody).reg

\* C19 as stated: after every bound block the object pushed on entry is
\* popped, whether the body completed or raised, and what the body raised
\* leaves the block; after a block with a balanced body the stack of the scope
\* is as before
C19_Original ==
    [][BlockStep =>
          /\ Released
          /\ result'.err = BlockLeft
          /\ BalancedBody(BlockBody) => SameStacks]_vars

\* C19: a bound block pushes the object on entry and runs the pop on every
\* exit, whether the body completed or raised: the pop takes the top entry off
\* the stack that the body left, or reports that this stack is empty; an
\* exception that left the body is never swallowed; and after a block whose
\* body's pushes and pops are balanced the entries pushed on entry are gone,
\* all stacks are as before the block, and what leaves the block is what left
\* the body
C19_ScopedBinding ==
    [][BlockStep =>
          /\ BlockLeft # None => result'.err # None
          /\ ~IsSetup(BlockObject) =>
                 LET c == ClassOf(BlockObject)
                     left == StackIn(AfterBody, result'.cls, result'.tid, c)
                     now == StackIn(Registry', result'.cls, result'.tid, c)
                 IN IF left = <<>> THEN now = <<>> /\ result'.err # None
                    ELSE now = ButLast(left)
          /\ BalancedBody(BlockBody) =>
                 /\ Released
                 /\ co_global' = co_global
                 /\ co_context' = co_context
                 /\ result'.err = BlockLeft]_vars

\* a block on the setup n1 bound to a thread whose body pushed and popped a
\* handler and then raised: the failure left the block and the stacks of the
\* thread are empty again
C19_Witness ==
    /\ result.op = "threadbound"
    /\ result.tid = "t1"
    /\ result.val = <<"n1", <<BodyOp(TRUE, "h2", "thread"), BodyOp(FALSE, "h2", "thread")>>,
                      TRUE, Failure>>
    /\ result.err = Failure
    /\ \A c \in Classes : co_context[c]["t1"] = <<>>

(* ------------------------------------------------------------------ *)
(* Claims about the initialisation of the record in call_handlers      *)
(* ------------------------------------------------------------------ *)
\* the places in the log of the traversal where a call of the kind is made
Calls(kind) == { k \in 1..Len(log) : log[k].ev = kind }

\* the traversal has come to a handler that takes records of this level and
\* is not a blackhole
ReachedTaker ==
    \E k \in Calls("visit") :
        /\ handler[log[k].who].level <= rec.level
        /\ ~handler[log[k].who].blackhole

\* C20 as stated: in one traversal of call_handlers, heavy_init and then
\* process_record are each called at most once, in that order, before the
\* filter or the handle of any handler; both are called exactly when the
\* traversal has come to a handler whose level is at most that of the record
\* and which is not a blackhole
C20_Original ==
    /\ Cardinality(Calls("heavy_init")) <= 1
    /\ Cardinality(Calls("process_record")) <= 1
    /\ \A k \in Calls("process_record") : k > 1 /\ log[k - 1].ev = "heavy_init"
    /\ \A k \in Calls("filter") \cup Calls("handle") :
           \E j \in Calls("process_record") : j < k
    /\ Calls("heavy_init") # {} <=> ReachedTaker
    /\ Calls("process_record") # {} <=> ReachedTaker

\* C20: in one traversal of call_handlers, heavy_init and then process_record
\* are each called at most once, process_record right after heavy_init, and
\* before the filter or the handle of any handler and before any processor;
\* heavy_init is called exactly when the traversal has come to a handler
\* whose level is at most that of the record and which is not a blackhole, so
\* not at all when every handler is skipped by its level or a blackhole is
\* met first; process_record is called exactly when heavy_init was called and
\* returned, and a heavy_init that raises ends the traversal
C20_SingleShotInit ==
    /\ Cardinality(Calls("heavy_init")) <= 1
    /\ Cardinality(Calls("process_record")) <= 1
    /\ \A k \in Calls("process_record") : k > 1 /\ log[k - 1].ev = "heavy_init"
    /\ \A k \in Calls("filter") \cup Calls("handle") \cup Calls("process") :
           \E j \in Calls("process_record") : j < k
    /\ Calls("heavy_init") # {} <=> ReachedTaker
    /\ Calls("process_record") # {} <=>
           \E k \in Calls("heavy_init") : log[k].ret = "none"
    /\ \A k \in Calls("heavy_init") :
           log[k].ret = "raise" =>
               k = Len(log) /\ run.pc = "idle" /\ result.err = "raised"

\* a finished traversal that gave the record to two handlers, one after the
\* other, and initialised and processed the record once, before the first
\* handle, with one processor called
C20_Witness ==
    /\ run.pc = "idle"
    /\ Cardinality(Calls("visit")) = 2
    /\ Cardinality(Calls("handle")) = 2
    /\ Cardinality(Calls("heavy_init")) = 1
    /\ Cardinality(Calls("process_record")) = 1
    /\ Cardinality(Calls("process")) = 1
    /\ rec.heavy_initialized

(* ------------------------------------------------------------------ *)
(* Claims about threads that run registry operations at the same time  *)
(* ------------------------------------------------------------------ *)
StackOps == {"push_thread", "pop_thread", "push_application", "pop_application"}

\* thread t is inside of a push or a pop
InsideStackOp(t) == th[t].op \in StackOps

\* thread t is inside of a push or pop of the application stack: between the
\* mutation of the stack and the end of the operation
InsideApplicationOp(t) == th[t].op \in {"push_application", "pop_application"}

\* C21 as stated: a thread that is inside of push_application or
\* pop_application, where the stack is mutated and the cache invalidated,
\* holds the context lock of the class, and no two threads are inside of a
\* push or pop of the same class at the same time
C21_Original ==
    /\ \A t \in Threads : InsideApplicationOp(t) => co_lock[th[t].cls] = t
    /\ \A t, u \in Threads :
           (t # u /\ InsideStackOp(t) /\ InsideStackOp(u)) => th[t].cls # th[u].cls

\* C22 as stated: a thread that stores a freshly built list in the cache of a
\* class (iter_context_objects, line 179), or clears the cache because it is
\* over its capacity (line 174), holds the context lock of the class while it
\* does so
C22_Original ==
    [][\A t \in Threads :
          /\ iter_store(t) => co_lock[th[t].cls] = t
          /\ (iter_capacity(t) /\ co_cache' # co_cache) => co_lock[th[t].cls] = t]_vars

(* ------------------------------------------------------------------ *)
(* Claims about registry changes during a dispatch                     *)
(* ------------------------------------------------------------------ *)
\* the context handlers as the stacks of the thread have them now
StacksNow(tid) == ProjectObjects(SortReverse(co_global["Handler"] \o co_context["Handler"][tid]))

\* the context handlers as the stacks have them after the step, for the
\* thread that dispatches after the step
StacksNext ==
    ProjectObjects(SortReverse(co_global'["Handler"] \o co_context'["Handler"][run'.tid]))

\* the step is an iteration of the loop of call_handlers
LoopStep == run.pc = "loop" /\ log' # log

\* C23: the list of context handlers of a call_handlers traversal is the one
\* the stacks gave when the traversal started; while the traversal is under
\* way no push or pop of a handler, in either scope and by either thread,
\* changes that list, every iteration visits the handler that the list of the
\* start has at its place, and a dispatch that starts later gets the list of
\* the stacks as they are then
C23_SnapshotConsistency ==
    [][/\ (run.pc = "idle" /\ run'.pc = "loop") => run'.ctx = StacksNext
       /\ (run.pc = "loop" /\ run'.pc = "loop") => run'.ctx = run.ctx
       /\ LoopStep =>
              /\ Len(log') > Len(log)
              /\ log'[Len(log) + 1] =
                     Event("visit", (d_handlers[run.d] \o run.ctx)[run.i], "none")
              /\ run'.pc = "loop" => run'.i = run.i + 1]_vars

\* a traversal that has visited the first of two context handlers and has the
\* second still to visit, while both were popped in the meantime and the
\* stacks are empty
C23_Witness ==
    /\ run.pc = "loop"
    /\ run.i = 2
    /\ run.ctx = <<"h2", "h1">>
    /\ Len(EventsOf("visit")) = 1
    /\ result.op = "pop_application"
    /\ StacksNow(run.tid) = <<>>

(* ------------------------------------------------------------------ *)
(* Claims about the capacity of the cache                              *)
(* ------------------------------------------------------------------ *)
\* the number of threads that have an entry in the cache of the class
CacheSize(c) == Cardinality(DOMAIN co_cache[c])

\* C24 as stated: in every reachable state the cache of a class holds at most
\* as many entries as its capacity (256, scaled to ScaledCacheLimit)
C24_Original == \A c \in Classes : CacheSize(c) <= ScaledCacheLimit

(* ------------------------------------------------------------------ *)
(* Claims about the order of the processors                            *)
(* ------------------------------------------------------------------ *)
\* the processors visible to the thread as the stacks have them now: the ones
\* pushed last come first, over application and thread scope
ProcessorsNow(tid) ==
    ProjectObjects(SortReverse(co_global["Processor"] \o co_context["Processor"][tid]))

\* the callback of the group of the dispatcher, if it has a group with one
GroupCallback(d) ==
    IF d_group[d] # None /\ g_processor[d_group[d]] # None THEN <<"group">> ELSE <<>>

\* the calls that the step adds to the log, and the processors among them
Added == SubSeq(log', Len(log) + 1, Len(log'))
ProcessorsRun == SelectSeq(Added, LAMBDA e : e.ev = "process")

\* C25: process_record calls the processor of the group first, when the
\* dispatcher has a group, and then every processor visible to the calling
\* thread, in the order of iter_context_objects (pushed last, called first,
\* over application and thread scope), each entry once; a callback that
\* raises ends the calls; no processor is called outside of process_record;
\* pushes and pops of handlers leave the stacks and the cache of the
\* processors alone
C25_ProcessorOrder ==
    [][/\ LoopStep =>
              LET expected == GroupCallback(run.d) \o ProcessorsNow(run.tid)
                  n == Len(ProcessorsRun)
              IN /\ n > 0 => \E k \in 1..Len(Added) :
                                 /\ Added[k].ev = "process_record"
                                 /\ \A j \in 1..Len(Added) :
                                        Added[j].ev = "process" => j > k
                 /\ n <= Len(expected)
                 /\ \A k \in 1..n : ProcessorsRun[k].who = expected[k]
                 /\ \A k \in 1..(n - 1) : ProcessorsRun[k].ret = "none"
                 /\ (\E k \in 1..Len(Added) : Added[k].ev = "process_record")
                        => \/ n = Len(expected)
                           \/ n > 0 /\ ProcessorsRun[n].ret = "raise"
       /\ ~LoopStep => SelectSeq(log', LAMBDA e : e.ev = "process")
                           = SelectSeq(log, LAMBDA e : e.ev = "process")
                       \/ SelectSeq(log', LAMBDA e : e.ev = "process") = <<>>
       /\ (co_global'["Handler"] # co_global["Handler"]
              \/ co_context'["Handler"] # co_context["Handler"])
          => /\ co_global'["Processor"] = co_global["Processor"]
             /\ co_context'["Processor"] = co_context["Processor"]
             /\ co_cache'["Processor"] = co_cache["Processor"]]_vars

\* a dispatch of a logger in a group that called the processor of the group,
\* then the processor pushed last, to the application, then the one pushed
\* first, to the thread, with a handler pushed as well
C25_Witness ==
    /\ run.pc = "idle"
    /\ d_group["d1"] = "g1"
    /\ [k \in 1..Len(EventsOf("process")) |-> EventsOf("process")[k].who]
           = <<"group", "p1", "p2">>
    /\ \A k \in 1..Len(EventsOf("process")) : EventsOf("process")[k].ret = "none"
    /\ co_context["Processor"]["t1"] = <<<<0, "p2">>>>
    /\ co_global["Processor"] = <<<<1, "p1">>>>
    /\ co_stackop["Handler"] = 1

(* ------------------------------------------------------------------ *)
(* Claims about interleaved operations                                 *)
(* ------------------------------------------------------------------ *)
\* no thread is inside of an operation of the registry
Quiescent == \A t \in Threads : th[t].pc = "idle"

\* the list that iter_context_objects builds for the thread from the stacks
\* as they are now
Rebuilt(c, tid) == ProjectObjects(SortReverse(co_global[c] \o co_context[c][tid]))

\* C26 as stated: with the operations of the threads interleaved statement
\* by statement, in every state where no operation is in progress the cache
\* entry of every thread, if there is one, is the list that a rebuild from
\* the stacks gives for that thread
C26_Original ==
    Quiescent =>
        \A c \in Classes : \A t \in DOMAIN co_cache[c] :
            co_cache[c][t] = Rebuilt(c, t)

(* ------------------------------------------------------------------ *)
(* Claims about a pop that fails                                       *)
(* ------------------------------------------------------------------ *)
Pops == {"pop_thread", "pop_application"}

\* the stack that the pop of thread t works on
PopStack(t) ==
    IF th[t].op = "pop_thread" THEN co_context[th[t].cls][t] ELSE co_global[th[t].cls]

\* thread t takes a step of its pop from position pc
PopStepFrom(t, pc) == th[t].op \in Pops /\ th[t].pc = pc /\ th'[t] # th[t]

\* thread t starts operation op with this step
Starts(t, op) == th[t].pc = "idle" /\ th'[t].op = op

\* thread t ends its pop with this step
PopEnds(t) == th[t].op \in Pops /\ th'[t].pc = "idle"

\* C27: a pop takes the top entry off a stack that is not empty whichever
\* object it is called on (lines 257, 268), the cache is invalidated before
\* the object is compared (lines 254, 269), and a pop that finds another
\* object than its own raises 'popped unexpected object' with the entry gone
\* and no further change of a stack; a pop that finds the stack empty raises
\* and leaves it as it is; a thread that has ended its pop does not hold
\* the context lock
C27_FailedPop ==
    [][\A t \in Threads :
        LET c == th[t].cls IN
        \* stack.pop(): the top entry goes, expected or not
        /\ (PopStepFrom(t, "pop") /\ PopStack(t) # <<>>)
           => /\ PopStack(t)' = ButLast(PopStack(t))
              /\ th'[t].popped = PopStack(t)[Len(PopStack(t))]
              /\ th'[t].err = None
        \* pop_thread has dropped the cache entry of the thread and holds the
        \* lock when it pops; its stack is not empty then
        /\ (PopStepFrom(t, "pop") /\ th[t].op = "pop_thread")
           => /\ PopStack(t) # <<>>
              /\ t \notin DOMAIN co_cache[c]
              /\ co_lock[c] = t
        \* pop_application clears the cache between the pop and the comparison
        /\ (th[t].op = "pop_application" /\ th'[t].pc = "assert_top"
               /\ th[t].pc # "assert_top")
           => /\ th[t].pc = "clear"
              /\ co_cache'[c] = EmptyDict
        \* the comparison: another object than the one of the call raises, with
        \* the entry off the stack and the cache entry of the thread dropped
        /\ PopStepFrom(t, "assert_top")
           => /\ co_global' = co_global /\ co_context' = co_context
              /\ th[t].popped \notin {PopStack(t)[k] : k \in 1..Len(PopStack(t))}
              /\ th[t].op = "pop_thread"
                 => /\ t \notin DOMAIN co_cache[c]
                    /\ th'[t].err = IF th[t].popped[2] # th[t].obj
                                    THEN "popped unexpected object" ELSE None
              /\ th[t].op = "pop_application"
                 => /\ result'.op = "pop_application" /\ result'.tid = t
                    /\ result'.err = IF th[t].popped[2] # th[t].obj
                                     THEN "popped unexpected object" ELSE None
        \* after the pop the operation changes no stack
        /\ (PopStepFrom(t, "clear") \/ PopStepFrom(t, "release"))
           => co_global' = co_global /\ co_context' = co_context
        \* the error of pop_thread is raised when the `with` block is left
        /\ PopStepFrom(t, "release")
           => /\ result'.op = "pop_thread" /\ result'.tid = t
              /\ result'.err = th[t].err
              /\ th[t].err = "popped unexpected object"
                 => /\ th[t].popped[2] # th[t].obj
                    /\ th[t].popped \notin {PopStack(t)[k] : k \in 1..Len(PopStack(t))}
              /\ th[t].err = "no objects on stack"
                 => PopStack(t) = <<>> /\ th[t].popped = None
        \* an empty stack: the assertion fails and the stack stays empty
        /\ (PopStepFrom(t, "assert_stack") /\ PopStack(t) = <<>>)
           => /\ th'[t].err = "no objects on stack"
              /\ th'[t].pc = "release"
              /\ co_context' = co_context /\ co_global' = co_global
        /\ Starts(t, "pop_application")
           => /\ co_global[th'[t].cls] # <<>>
              /\ co_context' = co_context /\ co_global' = co_global
        /\ (th' = th /\ result'.op = "pop_application" /\ result'.tid = t)
           => /\ co_global[result'.cls] = <<>>
              /\ result'.err = "no objects on application stack"
              /\ co_context' = co_context /\ co_global' = co_global
        \* the lock is not held after the pop
        /\ PopEnds(t) => \A k \in Classes : co_lock'[k] # t]_vars

\* a pop_thread of an object that is not the one on top of the stack of the
\* thread has raised: the stack has lost its only entry, the cache has no
\* entry for the thread, and the lock is free
C27_Witness ==
    /\ result.op = "pop_thread"
    /\ result.err = "popped unexpected object"
    /\ co_stackop[result.cls] = 1
    /\ co_context[result.cls][result.tid] = <<>>
    /\ result.tid \notin DOMAIN co_cache[result.cls]
    /\ co_lock[result.cls] = None
    /\ \A t \in Threads : th[t].pc = "idle"

====
